---------------------------- MODULE Spec2Model ----------------------------
(***************************************************************************)
(* The infinite-scroll accumulator of the tour list (TourListInfinite),    *)
(* the server actions it calls and the home page that builds its first     *)
(* page.                                                                   *)
(*                                                                         *)
(* TourListInfinite is a React function component.  Its state (tours,      *)
(* isLoading, hasMore, currentPage) is updated by setState calls; the      *)
(* IntersectionObserver callback and loadMore read the values captured by  *)
(* the render whose effects created them, not the current state.  The      *)
(* model therefore keeps the component state and the rendered snapshot     *)
(* apart: Render copies the first into the second and runs the effects.    *)
(***************************************************************************)
EXTENDS Integers, Sequences, FiniteSets

\* ------------------------------------------------------------------ bounds
\* Number of parameter changes (navigations) delivered after mount.
MaxNav == 2
\* Number of loadMore requests issued in one behaviour.
MaxReq == 2

\* -------------------------------------------------------- program constants
\* Page size passed to the server actions.
NumOfRows == 20

\* DEFAULT_AREA_CODE of the home page.
DefaultAreaCode == "1"

\* --------------------------------------------------------------- upstream
\* The upstream tourism API is outside the program: a dataset is what the
\* queries for one area resolve to.  Dataset 1 (area "1") holds only category
\* "12"; dataset 2 (any other area) cycles through "12", "14", "39" on its
\* first two pages, holds only "14" from the third on, and is returned
\* whatever category the query names.
DatasetOf(searchAreaCode) == IF searchAreaCode = "1" THEN 1 ELSE 2

CategoryOf(ds, g) ==
    IF ds = 1 THEN "12"
    ELSE IF g > 2 * NumOfRows THEN "14"
    ELSE IF g % 3 = 1 THEN "12" ELSE IF g % 3 = 2 THEN "14" ELSE "39"

\* A TourItem: contentid, contenttypeid, title (its rank in Korean collation)
\* and modifiedtime (its time value).
TourItem(ds, g) ==
    [contentid     |-> ds * 100 + g,
     contenttypeid |-> CategoryOf(ds, g),
     title         |-> (g * 3) % 4,
     modifiedtime  |-> (g * 5) % 3]

\* The n items the upstream returns for page pageNo of dataset ds.
UpstreamPage(ds, pageNo, n) ==
    [i \in 1..n |-> TourItem(ds, (pageNo - 1) * NumOfRows + i)]

\* Lengths of an upstream page: short, full.
PageLens == {5, NumOfRows}

\* <<length of page 1, totalCount>> of a first fetch.
FirstShapes == {<<5, 5>>, <<NumOfRows, 25>>}

\* ------------------------------------------------------------- descriptor
\* keyword "" is no keyword, subAreaCode "" is no sub-area.
Descriptor(kw, area, sub, cats, sort) ==
    [keyword |-> kw, areaCode |-> area, subAreaCode |-> sub,
     contentTypeIds |-> cats, sortBy |-> sort]

Descriptors ==
    { Descriptor("", "1", "", <<>>, "latest"),
      Descriptor("", "1", "", <<"12", "39">>, "latest"),
      Descriptor("k", "2", "5", <<"12", "39">>, "name") }

\* --------------------------------------------------------- pure functions
\* contentTypeIds.includes(tour.contenttypeid)
Includes(ids, x) == \E i \in DOMAIN ids : ids[i] = x

\* Mutant of ClientFilter: filters whenever any type is selected.
ClientFilterAnySelected(items, contentTypeIds) ==
    IF Len(contentTypeIds) > 0
    THEN SelectSeq(items, LAMBDA t : Includes(contentTypeIds, t.contenttypeid))
    ELSE items

\* The client-side filter of Home and loadMore: applied only when more than
\* one type is selected.
ClientFilter(items, contentTypeIds) ==
    IF Len(contentTypeIds) > 1
    THEN SelectSeq(items, LAMBDA t : Includes(contentTypeIds, t.contenttypeid))
    ELSE items

\* sortByName: a.title.localeCompare(b.title, "ko")
sortByName(a, b) == a.title - b.title

\* sortByLatest: time(b) - time(a)
sortByLatest(a, b) == b.modifiedtime - a.modifiedtime

Compare(sortBy, a, b) ==
    IF sortBy = "name" THEN sortByName(a, b) ELSE sortByLatest(a, b)

\* Array.prototype.sort is stable: x goes after every element it does not
\* precede.
RECURSIVE InsertSorted(_, _, _)
InsertSorted(s, x, sortBy) ==
    IF s = <<>> THEN <<x>>
    ELSE IF Compare(sortBy, x, s[Len(s)]) >= 0 THEN Append(s, x)
    ELSE Append(InsertSorted(SubSeq(s, 1, Len(s) - 1), x, sortBy), s[Len(s)])

RECURSIVE SortItems(_, _)
SortItems(items, sortBy) ==
    IF items = <<>> THEN <<>>
    ELSE InsertSorted(SortItems(SubSeq(items, 1, Len(items) - 1), sortBy),
                      items[Len(items)], sortBy)

\* Mutant of InitialHasMore: compares with <= instead of <.
InitialHasMoreOrEqual(initialTours, totalCount) ==
    Len(initialTours) <= totalCount

\* useState(() => initialTours.length < totalCount) and the reset effect's
\* setHasMore(initialTours.length < totalCount)
InitialHasMore(initialTours, totalCount) == Len(initialTours) < totalCount

\* JSON.stringify({tours: ids, totalCount, sortBy}): equal strings iff equal
\* id sequences, counts and sort keys, so the key is kept as that record.
CurrentKey(p) ==
    [tours      |-> [i \in DOMAIN p.initialTours |-> p.initialTours[i].contentid],
     totalCount |-> p.totalCount,
     sortBy     |-> p.desc.sortBy]

\* useRef<string>(""): the empty string, which no serialized key equals.
EmptyKey == [tours |-> <<>>, totalCount |-> -1, sortBy |-> ""]

\* const searchAreaCode = subAreaCode || areaCode
SearchAreaCode(d) == IF d.subAreaCode # "" THEN d.subAreaCode ELSE d.areaCode

\* Home: the first page handed to the list.  The upstream result is filtered
\* on the client when several types are selected, then sorted.
HomeProps(d, upstreamItems, total) ==
    [initialTours |-> SortItems(ClientFilter(upstreamItems, d.contentTypeIds),
                                d.sortBy),
     totalCount   |-> total,
     desc         |-> d]

\* What Home receives for descriptor d when the upstream holds a first page
\* of n items out of total.
FirstPage(d, n, total) ==
    HomeProps(d, UpstreamPage(DatasetOf(SearchAreaCode(d)), 1, n), total)

\* Mutant of LoadMoreRequest: the sub-area is not used.
LoadMoreRequestAreaOnly(r) ==
    [mode           |-> IF r.desc.keyword # "" THEN "keyword" ELSE "area",
     keyword        |-> r.desc.keyword,
     searchAreaCode |-> r.desc.areaCode,
     contentTypeId  |-> IF Len(r.desc.contentTypeIds) > 0
                        THEN r.desc.contentTypeIds[1] ELSE "",
     pageNo         |-> r.currentPage + 1,
     numOfRows      |-> NumOfRows,
     desc           |-> r.desc]

\* loadMore, up to the await: the server-action call built from the values
\* the closure r captured.  desc is the closure's props, which the
\* continuation reads after the await (contentTypeIds, sortBy).
LoadMoreRequest(r) ==
    [mode           |-> IF r.desc.keyword # "" THEN "keyword" ELSE "area",
     keyword        |-> r.desc.keyword,
     searchAreaCode |-> SearchAreaCode(r.desc),
     contentTypeId  |-> IF Len(r.desc.contentTypeIds) > 0
                        THEN r.desc.contentTypeIds[1] ELSE "",
     pageNo         |-> r.currentPage + 1,
     numOfRows      |-> NumOfRows,
     desc           |-> r.desc]

\* Mutant of ServerHasMore: any non-empty page counts as "more".
ServerHasMoreNonEmpty(items, numOfRows) == Len(items) > 0

\* loadMoreAreaBasedTours / loadMoreSearchResults: both return the fetched
\* items with hasMore = (items.length === numOfRows).  The totalCount they
\* pass through is not read by the caller.
ServerHasMore(items, numOfRows) == Len(items) = numOfRows

LoadMoreAction(items, numOfRows) ==
    [items |-> items, hasMore |-> ServerHasMore(items, numOfRows)]

\* Mutant of NextHasMore: ignores what the client-side filter left.
NextHasMoreUnfiltered(result, newItems) == result.hasMore

\* setHasMore(result.hasMore && newItems.length > 0)
NextHasMore(result, newItems) == result.hasMore /\ Len(newItems) > 0

\* loadMore's guard is "if (isLoading || !hasMore) return", read from the
\* closure r.
LoadMoreProceeds(r) == ~(r.isLoading \/ ~r.hasMore)

\* The observer callback: entries[0]?.isIntersecting && hasMore && !isLoading
ObserverFires(r) == r.hasMore /\ ~r.isLoading

\* The sentinel <div ref={observerTarget}> is rendered iff hasMore, and not
\* at all when the component returns <EmptyList/>.
SentinelRendered(len, loading, more) == more /\ ~(len = 0 /\ ~loading)

\* Mutant of ResetNeeded: resets on every signal.
ResetAlways(prevKey, currentKey) == TRUE

\* The reset effect's test: "if (prevInitialToursRef.current !== currentKey)".
ResetNeeded(prevKey, currentKey) == prevKey # currentKey

RemoveAt(s, i) == SubSeq(s, 1, i - 1) \o SubSeq(s, i + 1, Len(s))

\* ------------------------------------------------------------------- text
\* A JavaScript string is the sequence of its characters; a value that may
\* be missing is Undefined or Str(s).  The null of getDetailIntro and the
\* undefined of a missing field are both Undefined: the code tells them
\* apart nowhere (optional chaining, ||, truthiness).
Undefined == [undef |-> TRUE]

Str(s) == [str |-> s]

IsStr(v) == "str" \in DOMAIN v

\* ToBoolean of an optional string: undefined and "" are falsy.
Truthy(v) == IsStr(v) /\ v.str # <<>>

Digits == {"0", "1", "2", "3", "4", "5", "6", "7", "8", "9"}

\* \s within the characters used here.
WhiteSpace == {" "}

\* The characters strings are built from.
Alphabet ==
    Digits \cup WhiteSpace \cup
    {"-", ".", "(", ")", ":", "/", "<", ">", "=", "\"", "'", "+",
     "a", "e", "f", "h", "l", "n", "p", "r", "s", "t", "u", "x", "N", "A"}

\* String.prototype.trim
RECURSIVE TrimStart(_)
TrimStart(s) ==
    IF s # <<>> /\ s[1] \in WhiteSpace THEN TrimStart(Tail(s)) ELSE s

RECURSIVE TrimEnd(_)
TrimEnd(s) ==
    IF s # <<>> /\ s[Len(s)] \in WhiteSpace
    THEN TrimEnd(SubSeq(s, 1, Len(s) - 1)) ELSE s

Trim(s) == TrimEnd(TrimStart(s))

\* String.prototype.startsWith
StartsWith(s, p) == Len(s) >= Len(p) /\ SubSeq(s, 1, Len(p)) = p

\* s.replace(/[cls]/g, ""): the characters of cls removed.
RemoveChars(s, cls) == SelectSeq(s, LAMBDA c : c \notin cls)

\* --------------------------------------------------- regular expressions
\* A pattern is a sequence of elements [cls, min, max]: between min and max
\* characters of the class cls, greedy.  A match is the sequence of the
\* numbers of characters each element took; NoMatch when there is none.
Elem(cls, min, max) == [cls |-> cls, min |-> min, max |-> max]

\* A literal string as a pattern.
Lit(s) == [i \in DOMAIN s |-> Elem({s[i]}, 1, 1)]

NoMatch == <<-1>>

\* The longest run of characters of cls from position pos, at most max.
RECURSIVE RunLength(_, _, _, _)
RunLength(s, pos, cls, max) ==
    IF max = 0 \/ pos > Len(s) \/ s[pos] \notin cls THEN 0
    ELSE 1 + RunLength(s, pos + 1, cls, max - 1)

\* Backtracking match of elements k.. of pat at position pos: each element
\* takes the most characters for which the rest still matches.
RECURSIVE MatchFrom(_, _, _, _)
MatchFrom(s, pos, pat, k) ==
    IF k > Len(pat) THEN <<>>
    ELSE LET e == pat[k]
             run == RunLength(s, pos, e.cls, e.max)
             ok == {n \in e.min..run :
                       MatchFrom(s, pos + n, pat, k + 1) # NoMatch}
         IN  IF ok = {} THEN NoMatch
             ELSE LET n == CHOOSE m \in ok : \A o \in ok : o <= m
                  IN  <<n>> \o MatchFrom(s, pos + n, pat, k + 1)

\* s.match(pat): the leftmost position at which pat matches, 0 when none.
MatchStart(s, pat) ==
    LET at == {i \in 1..(Len(s) + 1) : MatchFrom(s, i, pat, 1) # NoMatch}
    IN  IF at = {} THEN 0 ELSE CHOOSE i \in at : \A j \in at : i <= j

RECURSIVE SumSeq(_)
SumSeq(ns) == IF ns = <<>> THEN 0 ELSE ns[1] + SumSeq(Tail(ns))

\* The text elements from..to of pat matched, for the match at position i.
Group(s, pat, i, from, to) ==
    LET m == MatchFrom(s, i, pat, 1)
        before == SumSeq(SubSeq(m, 1, from - 1))
        len == SumSeq(SubSeq(m, from, to))
    IN  SubSeq(s, i + before, i + before + len - 1)

\* ------------------------------------------------------------- fetchTourApi
\* An HTTP exchange with the upstream API as fetchTourApi sees it: ok is
\* response.ok, json whether the body parses, resultCode the header's code
\* and item the value of body.items.item:
\*   [kind |-> "array", elems |-> <<...>>]   a JSON array
\*   [kind |-> "object", value |-> v]         a single object
\*   [kind |-> "absent"]                      no item key, or items is ""
\*   [kind |-> "noitems"]                     body.items itself is missing
Response(ok, json, resultCode, item) ==
    [ok |-> ok, json |-> json, resultCode |-> resultCode, item |-> item]

Threw == [threw |-> TRUE]

Returned(v) == [threw |-> FALSE, value |-> v]

ResultOk == <<"0", "0", "0", "0">>

\* Mutant of fetchTourApi: the result code is not looked at.
fetchTourApiAnyCode(resp) ==
    IF ~resp.ok THEN Threw
    ELSE IF ~resp.json THEN Threw
    ELSE Returned(resp)

\* fetchTourApi: throws on a non-OK status, on a body that is not JSON and on
\* a resultCode other than "0000"; otherwise returns the parsed data.
fetchTourApi(resp) ==
    IF ~resp.ok THEN Threw
    ELSE IF ~resp.json THEN Threw
    ELSE IF resp.resultCode # ResultOk THEN Threw
    ELSE Returned(resp)

\* Array.isArray(items) ? items : items ? [items] : []
ToItemArray(item) ==
    IF item.kind = "array" THEN item.elems
    ELSE IF item.kind = "object" THEN <<item.value>>
    ELSE <<>>

\* getAreaBasedList / searchKeyword: reading .item of a missing items throws.
getList(resp) ==
    LET r == fetchTourApi(resp)
    IN  IF r.threw THEN Threw
        ELSE IF r.value.item.kind = "noitems" THEN Threw
        ELSE Returned(ToItemArray(r.value.item))

\* getDetailCommon / getDetailIntro:
\* Array.isArray(items) ? items[0] : items || null
getDetail(resp) ==
    LET r == fetchTourApi(resp)
    IN  IF r.threw THEN Threw
        ELSE IF r.value.item.kind = "noitems" THEN Threw
        ELSE IF r.value.item.kind = "array"
             THEN IF r.value.item.elems = <<>> THEN Returned(Undefined)
                  ELSE Returned(r.value.item.elems[1])
        ELSE IF r.value.item.kind = "object" THEN Returned(r.value.item.value)
        ELSE Returned(Undefined)

\* ------------------------------------------------- detail page: the merges
InfocenterFields ==
    <<"infocenter", "infocenterculture", "infocenterleports",
      "infocenterlodging", "infocentershopping", "infocenterfood">>

HomepageFields ==
    <<"homepage", "homepageculture", "homepageleports", "homepagelodging",
      "homepageshopping", "homepagefood">>

\* intro?.field
IntroField(intro, f) == IF intro = Undefined THEN Undefined ELSE intro[f]

RECURSIVE OrChain(_)
\* Mutant of OrChain: the first operand, whatever it is.
OrChainFirstOnly(vs) == vs[1]

\* a || b || ... : the first truthy operand, else the last one.
OrChain(vs) ==
    IF Len(vs) = 1 \/ Truthy(vs[1]) THEN vs[1] ELSE OrChain(Tail(vs))

PhoneSeparators == {"-", "."} \cup WhiteSpace

\* /(\d{2,3}[-.\s]?\d{3,4}[-.\s]?\d{4})/, /(\d{4}[-.\s]?\d{4})/,
\* /(\(?\d{2,3}\)?[-.\s]?\d{3,4}[-.\s]?\d{4})/
phonePatterns ==
    << <<Elem(Digits, 2, 3), Elem(PhoneSeparators, 0, 1), Elem(Digits, 3, 4),
         Elem(PhoneSeparators, 0, 1), Elem(Digits, 4, 4)>>,
       <<Elem(Digits, 4, 4), Elem(PhoneSeparators, 0, 1),
         Elem(Digits, 4, 4)>>,
       <<Elem({"("}, 0, 1), Elem(Digits, 2, 3), Elem({")"}, 0, 1),
         Elem(PhoneSeparators, 0, 1), Elem(Digits, 3, 4),
         Elem(PhoneSeparators, 0, 1), Elem(Digits, 4, 4)>> >>

\* /(\d{2,3})(\d{3,4})(\d{4})/
HyphenPattern ==
    <<Elem(Digits, 2, 3), Elem(Digits, 3, 4), Elem(Digits, 4, 4)>>

\* extractedPhone.replace(/(\d{2,3})(\d{3,4})(\d{4})/, '$1-$2-$3')
Hyphenate(s) ==
    LET i == MatchStart(s, HyphenPattern)
        m == MatchFrom(s, i, HyphenPattern, 1)
    IN  IF i = 0 THEN s
        ELSE SubSeq(s, 1, i - 1)
             \o Group(s, HyphenPattern, i, 1, 1) \o <<"-">>
             \o Group(s, HyphenPattern, i, 2, 2) \o <<"-">>
             \o Group(s, HyphenPattern, i, 3, 3)
             \o SubSeq(s, i + SumSeq(m), Len(s))

\* The for loop over phonePatterns: the first pattern that matches gives
\* match[1] without ".", whitespace and parentheses, then hyphenated; <<>>
\* stands for the null of no match.
RECURSIVE ExtractPhone(_, _)
ExtractPhone(s, k) ==
    IF k > Len(phonePatterns) THEN <<>>
    ELSE LET pat == phonePatterns[k]
             i == MatchStart(s, pat)
         IN  IF i = 0 THEN ExtractPhone(s, k + 1)
             ELSE Hyphenate(RemoveChars(Group(s, pat, i, 1, Len(pat)),
                                        {".", "(", ")"} \cup WhiteSpace))

\* The fallback on the digits of the candidate.
PhoneFromDigits(infocenterField) ==
    LET numbersOnly == SelectSeq(infocenterField, LAMBDA c : c \in Digits)
        n == Len(numbersOnly)
    IN  IF n >= 8 /\ n <= 13
        THEN IF n = 10
             THEN SubSeq(numbersOnly, 1, 2) \o <<"-">>
                  \o SubSeq(numbersOnly, 3, 6) \o <<"-">>
                  \o SubSeq(numbersOnly, 7, n)
             ELSE IF n = 11
             THEN SubSeq(numbersOnly, 1, 3) \o <<"-">>
                  \o SubSeq(numbersOnly, 4, 7) \o <<"-">>
                  \o SubSeq(numbersOnly, 8, n)
             ELSE numbersOnly
        ELSE Trim(infocenterField)

\* detail.tel && detail.tel.trim() !== ""
HasValue(v) == Truthy(v) /\ Trim(v.str) # <<>>

\* Mutant of MergePhone: the intro candidate wins whenever there is one.
MergePhoneIntroFirst(tel, intro) ==
    LET field == OrChain([k \in 1..6 |-> IntroField(intro, InfocenterFields[k])])
        extractedPhone == ExtractPhone(field.str, 1)
    IN  IF Truthy(field)
        THEN [tel |-> Str(IF extractedPhone # <<>> THEN extractedPhone
                          ELSE PhoneFromDigits(field.str)),
              consulted |-> TRUE]
        ELSE [tel |-> tel, consulted |-> TRUE]

\* The phone merge of PlaceDetailPage: the resulting detail.tel and whether
\* the intro record's fields were read for it.
MergePhone(tel, intro) ==
    LET field == OrChain([k \in 1..6 |-> IntroField(intro, InfocenterFields[k])])
        extractedPhone == ExtractPhone(field.str, 1)
    IN  IF HasValue(tel) THEN [tel |-> tel, consulted |-> FALSE]
        ELSE IF Truthy(field)
        THEN [tel |-> Str(IF extractedPhone # <<>> THEN extractedPhone
                          ELSE PhoneFromDigits(field.str)),
              consulted |-> TRUE]
        ELSE [tel |-> tel, consulted |-> TRUE]

\* The homepage merge of PlaceDetailPage.
MergeHomepage(homepage, intro) ==
    LET introHomepage ==
            OrChain([k \in 1..6 |-> IntroField(intro, HomepageFields[k])])
    IN  IF ~HasValue(homepage) /\ intro # Undefined /\ HasValue(introHomepage)
        THEN Str(Trim(introHomepage.str))
        ELSE homepage

\* ----------------------------------------------------- normalizeHomepageUrl
\* The two Hangul syllables of the sentinel "없음", one character each.
Hangul == {"U+C5C6", "U+C74C"}

Quotes == {"\"", "'"}

\* Every character a homepage string is built from.
UrlAlphabet == Alphabet \cup Hangul

\* String.prototype.toLowerCase on the characters used here.
ToLowerChar(c) == IF c = "N" THEN "n" ELSE IF c = "A" THEN "a" ELSE c

ToLower(s) == [i \in DOMAIN s |-> ToLowerChar(s[i])]

\* String.prototype.includes for one character.
HasChar(s, c) == \E i \in DOMAIN s : s[i] = c

HttpPrefix == <<"h", "t", "t", "p", ":", "/", "/">>

HttpsPrefix == <<"h", "t", "t", "p", "s", ":", "/", "/">>

\* const invalidValues = ["없음", "N/A", "n/a", "-", "null", "undefined", ""]
invalidValues ==
    { <<"U+C5C6", "U+C74C">>, <<"N", "/", "A">>, <<"n", "/", "a">>, <<"-">>,
      <<"n", "u", "l", "l">>,
      <<"u", "n", "d", "e", "f", "i", "n", "e", "d">>, <<>> }

\* /href=["']([^"']+)["']/i for a string of length n.
HrefPattern(n) ==
    Lit(<<"h", "r", "e", "f", "=">>)
    \o <<Elem(Quotes, 1, 1), Elem(UrlAlphabet \ Quotes, 1, n),
         Elem(Quotes, 1, 1)>>

\* /<a[^>]*>([^<]+)<\/a>/i for a string of length n.
AnchorPattern(n) ==
    Lit(<<"<", "a">>)
    \o <<Elem(UrlAlphabet \ {">"}, 0, n), Elem({">"}, 1, 1),
         Elem(UrlAlphabet \ {"<"}, 1, n)>>
    \o Lit(<<"<", "/", "a", ">">>)

\* extractUrlFromHtml: the href attribute, else the link text when it starts
\* with http:// or https://, else null.
extractUrlFromHtml(html) ==
    LET n == Len(html)
        h == MatchStart(html, HrefPattern(n))
        t == MatchStart(html, AnchorPattern(n))
        url == Trim(Group(html, AnchorPattern(n), t, 5, 5))
    IN  IF h # 0 THEN Str(Trim(Group(html, HrefPattern(n), h, 7, 7)))
        ELSE IF t # 0 /\ (StartsWith(url, HttpPrefix) \/ StartsWith(url, HttpsPrefix))
        THEN Str(url)
        ELSE Undefined

\* Everything before the first character of cls (all of s when none).
RECURSIVE UpTo(_, _)
UpTo(s, cls) ==
    IF s = <<>> \/ s[1] \in cls THEN <<>> ELSE <<s[1]>> \o UpTo(Tail(s), cls)

RECURSIVE SkipSlashes(_)
SkipSlashes(s) ==
    IF s # <<>> /\ s[1] = "/" THEN SkipSlashes(Tail(s)) ELSE s

\* new URL(s) does not throw, for s that starts with http:// or https:// and
\* holds no digit, "%", "@", "?", "#", "[", "\" and no label starting with
\* "xn--": blanks at both ends are dropped, and after the scheme and any
\* further slashes the authority runs to
\* the next "/"; the host is what precedes its first ":" and must be
\* non-empty and free of forbidden host code points (here space, "<", ">");
\* what follows that ":" is the port and must be empty, since only digits
\* are allowed in it.  Path characters never make the parse fail.
UrlWellFormed(s) ==
    LET u == Trim(s)
        rest == IF StartsWith(u, HttpsPrefix)
                THEN SubSeq(u, Len(HttpsPrefix) + 1, Len(u))
                ELSE SubSeq(u, Len(HttpPrefix) + 1, Len(u))
        authority == UpTo(SkipSlashes(rest), {"/"})
        host == UpTo(authority, {":"})
        port == SubSeq(authority, Len(host) + 2, Len(authority))
    IN  /\ host # <<>>
        /\ \A i \in DOMAIN host : host[i] \notin {" ", "<", ">"}
        /\ port = <<>>

\* Mutant of normalizeHomepageUrl: the URL is not validated.
normalizeHomepageUrlUnchecked(url) ==
    LET trimmed == Trim(url.str)
        extractedUrl == extractUrlFromHtml(trimmed)
        trimmedUrl == IF HasChar(trimmed, "<") /\ HasChar(trimmed, ">")
                         /\ Truthy(extractedUrl)
                      THEN extractedUrl.str ELSE trimmed
    IN  IF ~Truthy(url) \/ Trim(url.str) = <<>> THEN Undefined
        ELSE IF ToLower(trimmedUrl) \in invalidValues THEN Undefined
        ELSE IF StartsWith(trimmedUrl, HttpPrefix)
                \/ StartsWith(trimmedUrl, HttpsPrefix)
        THEN Str(trimmedUrl)
        ELSE Str(HttpsPrefix \o trimmedUrl)

\* normalizeHomepageUrl: null, or the URL string to link to.
normalizeHomepageUrl(url) ==
    LET trimmed == Trim(url.str)
        extractedUrl == extractUrlFromHtml(trimmed)
        trimmedUrl == IF HasChar(trimmed, "<") /\ HasChar(trimmed, ">")
                         /\ Truthy(extractedUrl)
                      THEN extractedUrl.str ELSE trimmed
    IN  IF ~Truthy(url) \/ Trim(url.str) = <<>> THEN Undefined
        ELSE IF ToLower(trimmedUrl) \in invalidValues THEN Undefined
        ELSE IF StartsWith(trimmedUrl, HttpPrefix)
                \/ StartsWith(trimmedUrl, HttpsPrefix)
        THEN IF UrlWellFormed(trimmedUrl) THEN Str(trimmedUrl) ELSE Undefined
        ELSE IF UrlWellFormed(HttpsPrefix \o trimmedUrl)
        THEN Str(HttpsPrefix \o trimmedUrl)
        ELSE Undefined

\* ---------------------------------------------------------------- numbers
\* A JavaScript number that came from decimal text is kept exactly as
\* sign * mant / 10^scale, in lowest terms of ten (no trailing zero in the
\* fraction, zero unsigned); NaN is apart.  Dividing by a power of ten only
\* moves the scale, which is the value the double division rounds to.
NaN == [nan |-> TRUE]

IsNaN(x) == "nan" \in DOMAIN x

RECURSIVE Pow10(_)
Pow10(k) == IF k = 0 THEN 1 ELSE 10 * Pow10(k - 1)

RECURSIVE Num(_, _, _)
Num(sign, mant, scale) ==
    IF mant = 0 THEN [sign |-> 1, mant |-> 0, scale |-> 0]
    ELSE IF scale > 0 /\ mant % 10 = 0 THEN Num(sign, mant \div 10, scale - 1)
    ELSE [sign |-> sign, mant |-> mant, scale |-> scale]

Zero == Num(1, 0, 0)

\* x / 10^k
DivPow10(x, k) == Num(x.sign, x.mant, x.scale + k)

\* The integer sign * mant * 10^(to - scale), for to >= scale.
Scaled(x, to) == x.sign * x.mant * Pow10(to - x.scale)

\* x + y
Plus(x, y) ==
    LET to == IF x.scale > y.scale THEN x.scale ELSE y.scale
        sum == Scaled(x, to) + Scaled(y, to)
    IN  IF sum < 0 THEN Num(-1, -sum, to) ELSE Num(1, sum, to)

\* x >= n and x <= -n for a natural n: the integer part decides.
AtLeast(x, n) == x.sign = 1 /\ x.mant \div Pow10(x.scale) >= n

AtMostMinus(x, n) == x.sign = -1 /\ x.mant \div Pow10(x.scale) >= n

RECURSIVE DigitsValue(_)
DigitsValue(ds) ==
    IF ds = <<>> THEN 0
    ELSE 10 * DigitsValue(SubSeq(ds, 1, Len(ds) - 1))
         + (CHOOSE v \in 0..9 :
               <<"0", "1", "2", "3", "4", "5", "6", "7", "8", "9">>[v + 1]
                  = ds[Len(ds)])

\* parseFloat for text without an exponent and without "Infinity": leading
\* white space is skipped, then the longest prefix of the form
\* [+-] digits [. digits] or [+-] . digits is the number; NaN when there is
\* none.
parseFloat(s) ==
    LET t == TrimStart(s)
        signed == t # <<>> /\ t[1] \in {"+", "-"}
        u == IF signed THEN Tail(t) ELSE t
        whole == SubSeq(u, 1, RunLength(u, 1, Digits, Len(u)))
        dot == Len(u) > Len(whole) /\ u[Len(whole) + 1] = "."
        frac == IF dot
                THEN SubSeq(u, Len(whole) + 2,
                            Len(whole) + 1
                            + RunLength(u, Len(whole) + 2, Digits, Len(u)))
                ELSE <<>>
    IN  IF whole = <<>> /\ frac = <<>> THEN NaN
        ELSE Num(IF signed /\ t[1] = "-" THEN -1 ELSE 1,
                 DigitsValue(whole \o frac), Len(frac))

\* ------------------------------------------------------------- map-utils
\* Mutant of convertKatecToWgs84: the negative branch is missing.
convertKatecToWgs84PositiveOnly(katecCoord) ==
    LET num == parseFloat(katecCoord)
    IN  IF IsNaN(num) THEN Zero
        ELSE IF AtLeast(num, 1000) THEN DivPow10(num, 7)
        ELSE num

\* convertKatecToWgs84
convertKatecToWgs84(katecCoord) ==
    LET num == parseFloat(katecCoord)
    IN  IF IsNaN(num) THEN Zero
        ELSE IF AtLeast(num, 1000) \/ AtMostMinus(num, 1000)
        THEN DivPow10(num, 7)
        ELSE num

\* convertKatecToWgs84 of a coordinate field; a missing one is handed to
\* parseFloat as undefined, which gives NaN.
ConvertField(v) == IF IsStr(v) THEN convertKatecToWgs84(v.str) ELSE Zero

\* tour.mapx && tour.mapy && tour.mapx !== "0" && tour.mapy !== "0"
HasCoordinates(tour) ==
    /\ Truthy(tour.mapx) /\ Truthy(tour.mapy)
    /\ tour.mapx # Str(<<"0">>) /\ tour.mapy # Str(<<"0">>)

RECURSIVE SumOf(_, _)
SumOf(ts, field) ==
    IF ts = <<>> THEN Zero
    ELSE Plus(SumOf(SubSeq(ts, 1, Len(ts) - 1), field),
              ConvertField(ts[Len(ts)][field]))

\* calculateCenter: null, or the sums with the number of items they are
\* divided by (lng = sumLng / count, lat = sumLat / count).
calculateCenter(tours) ==
    LET validTours == SelectSeq(tours, HasCoordinates)
    IN  IF Len(validTours) = 0 THEN Undefined
        ELSE [sumLng |-> SumOf(validTours, "mapx"),
              sumLat |-> SumOf(validTours, "mapy"),
              count  |-> Len(validTours)]

\* ---------------------------------------------------------------- bookmarks
\* The bookmarks table is declared in the database schema, not in the
\* application code: rows (id, user_id, content_id), unique per
\* (user_id, content_id).  An insert that would break the constraint is
\* refused with the error code "23505" and changes nothing.
UniqueViolation == "23505"

HasBookmark(rows, userId, contentId) ==
    \E r \in rows : r.user_id = userId /\ r.content_id = contentId

\* supabase.from('bookmarks').insert({user_id, content_id}).select().single()
InsertRow(rows, id, userId, contentId) ==
    IF HasBookmark(rows, userId, contentId)
    THEN [rows |-> rows, error |-> UniqueViolation]
    ELSE [rows |-> rows \cup {[id |-> id, user_id |-> userId,
                               content_id |-> contentId]},
          error |-> "",
          data |-> [id |-> id, user_id |-> userId, content_id |-> contentId]]

\* supabase.from('bookmarks').delete().eq('user_id', ..).eq('content_id', ..)
DeleteRows(rows, userId, contentId) ==
    {r \in rows : ~(r.user_id = userId /\ r.content_id = contentId)}

\* Mutant of addBookmark: a duplicate is an error like any other.
addBookmarkThrowsOnDuplicate(answer) ==
    IF answer.error # "" THEN Threw ELSE Returned(answer.data)

\* addBookmark, after its await: null for a unique violation, a throw for
\* any other error, else the created row.
addBookmark(answer) ==
    IF answer.error # ""
    THEN IF answer.error = UniqueViolation THEN Returned(Undefined) ELSE Threw
    ELSE Returned(answer.data)

\* Mutant of removeBookmark: the error of the delete is not looked at.
removeBookmarkIgnoresError(answer) == Returned(TRUE)

\* removeBookmark, after its await.
removeBookmark(answer) ==
    IF answer.error # "" THEN Threw ELSE Returned(TRUE)

\* ------------------------------------------------------------------- Home
\* The characters of s as one string value.
RECURSIVE Text(_)
Text(s) == IF s = <<>> THEN "" ELSE s[1] \o Text(Tail(s))

\* String.prototype.split(",")
RECURSIVE SplitComma(_)
SplitComma(s) ==
    IF \E i \in DOMAIN s : s[i] = ","
    THEN LET i == CHOOSE k \in DOMAIN s :
                      s[k] = "," /\ \A j \in 1..(k - 1) : s[j] # ","
         IN  <<SubSeq(s, 1, i - 1)>> \o SplitComma(SubSeq(s, i + 1, Len(s)))
    ELSE <<s>>

\* The sentinel of the area and sub-area selectors.
AllSentinel == <<"a", "l", "l">>

\* const keyword = params.keyword?.trim() || ""
HomeKeyword(v) == IF IsStr(v) THEN Text(Trim(v.str)) ELSE ""

\* Mutant of HomeAreaCode: only a missing or empty areaCode gets the default.
HomeAreaCodeKeepsAll(v) == IF Truthy(v) THEN Text(v.str) ELSE DefaultAreaCode

\* params.areaCode && params.areaCode !== "all" ? params.areaCode
\*                                               : DEFAULT_AREA_CODE
HomeAreaCode(v) ==
    IF Truthy(v) /\ v.str # AllSentinel THEN Text(v.str) ELSE DefaultAreaCode

\* params.subAreaCode && params.subAreaCode !== "all" ? params.subAreaCode
\*                                                     : undefined
\* (the descriptor keeps "no sub-area" as "").
HomeSubAreaCode(v) ==
    IF Truthy(v) /\ v.str # AllSentinel THEN Text(v.str) ELSE ""

\* params.contentTypeId ? params.contentTypeId.split(",").filter(Boolean) : []
HomeContentTypeIds(v) ==
    IF Truthy(v)
    THEN LET parts == SelectSeq(SplitComma(v.str), LAMBDA p : p # <<>>)
         IN  [i \in DOMAIN parts |-> Text(parts[i])]
    ELSE <<>>

\* (params.sort as "latest" | "name") || "latest"
HomeSortBy(v) == IF Truthy(v) THEN Text(v.str) ELSE "latest"

\* Home, "filter value parsing": the descriptor of a query.
HomeDescriptor(params) ==
    Descriptor(HomeKeyword(params.keyword),
               HomeAreaCode(params.areaCode),
               HomeSubAreaCode(params.subAreaCode),
               HomeContentTypeIds(params.contentTypeId),
               HomeSortBy(params.sort))

\* Home's call for the first page: searchKeyword when the keyword is truthy,
\* getAreaBasedList otherwise, with subAreaCode || areaCode and the first
\* content type ("" stands for undefined).
HomeRequest(d) ==
    [mode           |-> IF d.keyword # "" THEN "keyword" ELSE "area",
     keyword        |-> d.keyword,
     searchAreaCode |-> IF d.subAreaCode # "" THEN d.subAreaCode
                        ELSE d.areaCode,
     contentTypeId  |-> IF Len(d.contentTypeIds) > 0
                        THEN d.contentTypeIds[1] ELSE "",
     pageNo         |-> 1,
     numOfRows      |-> NumOfRows]

\* ------------------------------------------------------------------ state
VARIABLES
    props,               \* initialTours, totalCount and the descriptor props
    propsDirty,          \* new props were delivered and not yet rendered
    tours,               \* useState: the accumulated items
    isLoading,           \* useState: the in-flight flag
    hasMore,             \* useState
    currentPage,         \* useState: the cursor
    prevInitialToursRef, \* useRef: key of the last reset
    rendered,            \* what the last render captured in its closures
    attached,            \* an observer is observing a mounted sentinel
    inflight,            \* server-action calls not yet settled, in issue order
    navs,                \* parameter changes delivered so far
    reqs,                \* loadMore requests issued so far
    last,                \* history: the last step taken
    propsFetched,        \* history: upstream length of the props' first page
    lastSignalKey,       \* history: key of the last signal the effect saw
    lastInitKey,         \* history: key of the last initialize or reset
    hasMoreSrc,          \* history: what hasMore was last computed from
    cursorDesc,          \* history: descriptor that currentPage was reached under
    renderedCursorDesc,  \* history: cursorDesc as of the last render
    layoutTours,         \* HomeLayout's useState: the tours given to NaverMap
    call,                \* a pure function applied on its own: name, arguments
    ret,                 \* and its result
    detailPage,          \* PlaceDetailPage: one run of the server component
    bookmarks,           \* the rows of the bookmarks table
    nextRowId,           \* the id the table gives its next row
    buttons,             \* the state of each mounted BookmarkButton
    clicks,              \* clicks made so far
    bookmarkList,        \* the state of the BookmarkList component
    mapLoader            \* NaverMap / DetailMap: SDK readiness polling

accVars == <<props, propsDirty, tours, isLoading, hasMore, currentPage,
             prevInitialToursRef, rendered, attached, inflight, navs, reqs,
             last, propsFetched, lastSignalKey, lastInitKey, hasMoreSrc,
             cursorDesc, renderedCursorDesc, layoutTours>>

pureVars == <<call, ret>>

pageVars == <<detailPage>>

bookmarkVars == <<bookmarks, nextRowId, buttons, clicks>>

listVars == <<bookmarkList>>

mapVars == <<mapLoader>>

\* Everything outside the accumulator.
outsideAcc == <<pureVars, pageVars, bookmarkVars, listVars, mapVars>>

vars == <<accVars, pureVars, pageVars, bookmarkVars, listVars, mapVars>>

\* No pure function is being applied.
NoCall == [fn |-> "none"]

Snapshot(p, len, loading, more, page) ==
    [isLoading |-> loading, hasMore |-> more, currentPage |-> page,
     empty |-> (len = 0), desc |-> p.desc]

\* The accumulator after the first render and its effects, for a first page
\* of n upstream items out of total under descriptor d: the useState
\* initializers ran, the reset effect set isMountedRef and returned, and the
\* observer effect observed the sentinel if one was rendered.
Mounted(d, n, total) ==
    LET p == FirstPage(d, n, total)
        more == InitialHasMore(p.initialTours, p.totalCount)
    IN  /\ props = p
        /\ propsDirty = FALSE
        /\ tours = p.initialTours
        /\ isLoading = FALSE
        /\ hasMore = more
        /\ currentPage = 1
        /\ prevInitialToursRef = EmptyKey
        /\ rendered = Snapshot(p, Len(p.initialTours), FALSE, more, 1)
        /\ attached = SentinelRendered(Len(p.initialTours), FALSE, more)
        /\ inflight = <<>>
        /\ navs = 0
        /\ reqs = 0
        /\ last = [op |-> "mount"]
        /\ propsFetched = n
        /\ lastSignalKey = EmptyKey
        /\ lastInitKey = CurrentKey(p)
        /\ hasMoreSrc = [by |-> "init", len |-> Len(p.initialTours),
                         total |-> p.totalCount, fetched |-> n]
        /\ cursorDesc = d
        /\ renderedCursorDesc = d
        /\ layoutTours = p.initialTours

\* No detail page is being rendered.
NoPage == [pc |-> "idle"]

\* No bookmark list is mounted.
NoList == [pc |-> "none"]

\* No map component is mounted.
NoMap == [component |-> "none"]

\* No bookmark button is mounted and the table is empty.
NoButtons ==
    /\ bookmarks = {}
    /\ nextRowId = 1
    /\ buttons = <<>>
    /\ clicks = 0

Init ==
    /\ \E d \in Descriptors, sh \in FirstShapes : Mounted(d, sh[1], sh[2])
    /\ call = NoCall
    /\ ret = NoCall
    /\ detailPage = NoPage
    /\ NoButtons
    /\ bookmarkList = NoList
    /\ mapLoader = NoMap

\* ---------------------------------------------------------------- actions
\* A parameter change: the router delivers the props Home computed for the
\* new query (always a fresh initialTours array).
Navigate(d, sh) ==
    /\ navs < MaxNav
    /\ props' = FirstPage(d, sh[1], sh[2])
    /\ propsDirty' = TRUE
    /\ navs' = navs + 1
    /\ last' = [op |-> "navigate"]
    /\ propsFetched' = sh[1]
    /\ UNCHANGED <<tours, isLoading, hasMore, currentPage,
                   prevInitialToursRef, rendered, attached, inflight, reqs,
                   lastSignalKey, lastInitKey, hasMoreSrc, cursorDesc,
                   renderedCursorDesc, layoutTours, outsideAcc>>

\* A render with its effects.  The closures of this render see the state
\* and props as they are now.  The reset effect runs when new props were
\* delivered; the observer effect runs when hasMore, isLoading or loadMore
\* (hence currentPage or any descriptor prop) changed, and otherwise the
\* old observer stays on the old sentinel node.  HomeLayout renders in the
\* same pass: its effect on [initialTours] copies a new first page into its
\* own tours.
Render ==
    LET R == Snapshot(props, Len(tours), isLoading, hasMore, currentPage)
        key == CurrentKey(props)
        doReset == propsDirty /\ ResetNeeded(prevInitialToursRef, key)
        depsChanged == \/ propsDirty
                       \/ R.isLoading # rendered.isLoading
                       \/ R.hasMore # rendered.hasMore
                       \/ R.currentPage # rendered.currentPage
        sentinel == SentinelRendered(Len(tours), isLoading, hasMore)
    IN  /\ propsDirty \/ R # rendered
        /\ rendered' = R
        /\ renderedCursorDesc' = cursorDesc
        /\ attached' = IF depsChanged THEN sentinel ELSE attached /\ sentinel
        /\ propsDirty' = FALSE
        /\ IF doReset
           THEN /\ tours' = props.initialTours
                /\ currentPage' = 1
                /\ hasMore' = InitialHasMore(props.initialTours,
                                             props.totalCount)
                /\ prevInitialToursRef' = key
                /\ lastInitKey' = key
                /\ hasMoreSrc' = [by |-> "init",
                                  len |-> Len(props.initialTours),
                                  total |-> props.totalCount,
                                  fetched |-> propsFetched]
                /\ cursorDesc' = props.desc
           ELSE UNCHANGED <<tours, currentPage, hasMore, prevInitialToursRef,
                            lastInitKey, hasMoreSrc, cursorDesc>>
        /\ lastSignalKey' = IF propsDirty THEN key ELSE lastSignalKey
        /\ layoutTours' = IF propsDirty THEN props.initialTours
                          ELSE layoutTours
        /\ last' = [op |-> "render", signal |-> propsDirty, reset |-> doReset,
                    sameAsLastSignal |-> (key = lastSignalKey),
                    sameAsLastInit |-> (key = lastInitKey)]
        /\ UNCHANGED <<props, isLoading, inflight, navs, reqs, propsFetched,
                       outsideAcc>>

\* The sentinel intersects: the observer callback of the last effect run
\* calls loadMore, which runs to its await.
Trigger ==
    /\ reqs < MaxReq
    /\ attached
    /\ ObserverFires(rendered)
    /\ LoadMoreProceeds(rendered)
    /\ isLoading' = TRUE
    /\ inflight' = Append(inflight, LoadMoreRequest(rendered))
    /\ reqs' = reqs + 1
    /\ last' = [op |-> "loadMore", pageNo |-> rendered.currentPage + 1,
                stateHasMore |-> hasMore, outstanding |-> Len(inflight),
                staleCursor |-> (/\ rendered.currentPage > 1
                                 /\ renderedCursorDesc # rendered.desc)]
    /\ UNCHANGED <<props, propsDirty, tours, hasMore, currentPage,
                   prevInitialToursRef, rendered, attached, navs,
                   propsFetched, lastSignalKey, lastInitKey, hasMoreSrc,
                   cursorDesc, renderedCursorDesc, layoutTours, outsideAcc>>

\* The server action of request i resolves with n items: loadMore continues
\* after its await, through finally.  The onToursUpdate prop that HomeLayout
\* passes is not among the props the component takes, so nothing is
\* reported to HomeLayout.
Resolve(i, n) ==
    LET q == inflight[i]
        result == LoadMoreAction(
                      UpstreamPage(DatasetOf(q.searchAreaCode), q.pageNo, n),
                      q.numOfRows)
        filtered == ClientFilter(result.items, q.desc.contentTypeIds)
        newItems == SortItems(filtered, q.desc.sortBy)
    IN  /\ tours' = tours \o newItems
        /\ currentPage' = q.pageNo
        /\ hasMore' = NextHasMore(result, newItems)
        /\ isLoading' = FALSE
        /\ inflight' = RemoveAt(inflight, i)
        /\ hasMoreSrc' = [by |-> "load", len |-> Len(newItems),
                          total |-> hasMoreSrc.total, fetched |-> n]
        /\ cursorDesc' = q.desc
        /\ last' = [op |-> "resolve", fetched |-> n,
                    serverHasMore |-> result.hasMore,
                    pageNo |-> q.pageNo, desc |-> q.desc]
        /\ UNCHANGED <<props, propsDirty, prevInitialToursRef, rendered,
                       attached, navs, reqs, propsFetched, lastSignalKey,
                       lastInitKey, renderedCursorDesc, layoutTours,
                       outsideAcc>>

\* Mutant of Reject: a failure also ends pagination.
RejectExhausts(i) ==
    /\ isLoading' = FALSE
    /\ hasMore' = FALSE
    /\ inflight' = RemoveAt(inflight, i)
    /\ last' = [op |-> "reject"]
    /\ UNCHANGED <<props, propsDirty, tours, currentPage,
                   prevInitialToursRef, rendered, attached, navs, reqs,
                   propsFetched, lastSignalKey, lastInitKey, hasMoreSrc,
                   cursorDesc, renderedCursorDesc, layoutTours, outsideAcc>>

\* The server action of request i throws: catch logs, finally clears the
\* loading flag.
Reject(i) ==
    /\ isLoading' = FALSE
    /\ inflight' = RemoveAt(inflight, i)
    /\ last' = [op |-> "reject"]
    /\ UNCHANGED <<props, propsDirty, tours, hasMore, currentPage,
                   prevInitialToursRef, rendered, attached, navs, reqs,
                   propsFetched, lastSignalKey, lastInitKey, hasMoreSrc,
                   cursorDesc, renderedCursorDesc, layoutTours, outsideAcc>>

Next ==
    \/ \E d \in Descriptors, sh \in FirstShapes : Navigate(d, sh)
    \/ Render
    \/ Trigger
    \/ \E i \in DOMAIN inflight, n \in PageLens : Resolve(i, n)
    \/ \E i \in DOMAIN inflight : Reject(i)

Spec == Init /\ [][Next]_vars

\* ------------------------------------------- the client-side filter alone
\* Longest list the filter is applied to on its own.
MaxItems == 3

CategoryCodes == {"12", "14", "39"}

\* A list of items with the given category codes, identified by position.
ItemsOf(cs) ==
    [i \in DOMAIN cs |->
        [contentid |-> i, contenttypeid |-> cs[i], title |-> 0,
         modifiedtime |-> 0]]

FilterInputs ==
    {ItemsOf(cs) : cs \in UNION {[1..n -> CategoryCodes] : n \in 0..MaxItems}}

Selections ==
    {<<>>, <<"12">>, <<"14">>, <<"12", "39">>, <<"39", "12">>,
     <<"12", "14", "39">>}

InitFilter ==
    /\ Mounted(Descriptor("", DefaultAreaCode, "", <<>>, "latest"), 5, 5)
    /\ call \in {[fn |-> "ClientFilter", items |-> it, selected |-> sel] :
                   it \in FilterInputs, sel \in Selections}
    /\ ret = NoCall
    /\ detailPage = NoPage
    /\ NoButtons
    /\ bookmarkList = NoList
    /\ mapLoader = NoMap

\* tours.filter((tour) => contentTypeIds.includes(tour.contenttypeid)) under
\* "if (contentTypeIds.length > 1)", as Home and loadMore apply it.
ApplyFilter ==
    /\ call.fn = "ClientFilter"
    /\ ret = NoCall
    /\ ret' = [fn |-> "ClientFilter",
               value |-> ClientFilter(call.items, call.selected)]
    /\ UNCHANGED <<accVars, call, pageVars, bookmarkVars, listVars,
                   mapVars>>

SpecFilter == InitFilter /\ [][ApplyFilter]_vars

\* -------------------------------------------------------- the detail page
\* Phone values of the common record: missing, empty, whitespace-only, a
\* number, a number with blanks around it.
TelValues ==
    { Undefined, Str(<<>>), Str(<<" ">>),
      Str(<<"0", "2", "-", "1", "2", "3", "-", "4", "5", "6", "7">>),
      Str(<<" ", "0", "2", "-", "1", "2", "3", "-", "4", "5", "6", "7", " ">>) }

\* Texts an infocenter field holds: a number inside a sentence, digits only
\* (11, 10 and 8 of them), parentheses, digits apart, no number, blank.
InfocenterTexts ==
    { <<"x", ":", " ", "1", "5", "8", "8", "-", "1", "2", "3", "4", " ",
        "(", "x", ")">>,
      <<"0", "1", "0", "1", "2", "3", "4", "5", "6", "7", "8">>,
      <<"0", "2", "1", "2", "3", "4", "5", "6", "7", "8">>,
      <<"1", "2", "3", "4", "5", "6", "7", "8">>,
      <<"1", "5", "8", "8", " ", "1", "2", "3", "4">>,
      <<"(", "0", "2", ")", "1", "2", "3", "-", "4", "5", "6", "7">>,
      <<"0", "2", ")", "1", "2", "3", "4", "-", "5", "6", "7", "8">>,
      <<"1", "-", "2", "-", "3", "-", "4", "-", "5", "-", "6", "-", "7",
        "-", "8">>,
      <<"1", " ", "2", " ", "3", " ", "4", " ", "5", " ", "6", " ", "7",
        " ", "8", " ", "9", " ", "0">>,
      <<"x", " ">>,
      <<" ">> }

\* Homepage values of either record.
HomepageValues == {Undefined, Str(<<" ">>), Str(<<" ", "a", ".", "x", " ">>)}

\* Values of the five category-specific infocenter fields.
OtherInfocenterValues ==
    {Undefined, Str(<<>>), Str(<<"1", "5", "8", "8", "-", "1", "2", "3", "4">>),
     Str(<<"1", "5", "4", "4", "-", "5", "6", "7", "8">>)}

\* An intro record from its six infocenter values and its six homepage
\* values.
TourIntro(ics, hps) ==
    [f \in {InfocenterFields[k] : k \in 1..6} \cup
           {HomepageFields[k] : k \in 1..6} |->
        IF \E k \in 1..6 : InfocenterFields[k] = f
        THEN ics[CHOOSE k \in 1..6 : InfocenterFields[k] = f]
        ELSE hps[CHOOSE k \in 1..6 : HomepageFields[k] = f]]

\* Intro records: a text in infocenter alone, or at most two of the six
\* fields present; the homepage in the first or the last of its fields.
IntroRecords ==
    LET none == [k \in 1..6 |-> Undefined]
        ics == {[none EXCEPT ![1] = Str(t)] : t \in InfocenterTexts}
               \cup {f \in [1..6 -> OtherInfocenterValues] :
                        Cardinality({k \in 1..6 : f[k] # Undefined}) <= 2}
        hps == {[none EXCEPT ![1] = h] : h \in HomepageValues}
               \cup {[none EXCEPT ![1] = e, ![6] = Str(<<"b", ".", "x">>)] :
                        e \in {Str(<<>>), Str(<<" ">>)}}
    IN  {TourIntro(i, h) : i \in ics, h \in hps}

ContentIds == {"125266", "264337"}

\* A common record (TourDetail).
TourDetail(id, type, tel, homepage) ==
    [contentid |-> id, contenttypeid |-> type, tel |-> tel,
     homepage |-> homepage]

DetailRecords ==
    {TourDetail(id, type, tel, hp) :
        id \in ContentIds, type \in {"12", "39"}, tel \in TelValues,
        hp \in {Undefined, Str(<<"c", ".", "x">>)}}

\* Exchanges that fail or carry nothing.
EmptyResponses ==
    { Response(FALSE, TRUE, ResultOk, [kind |-> "absent"]),
      Response(TRUE, FALSE, ResultOk, [kind |-> "absent"]),
      Response(TRUE, TRUE, <<"0", "3">>, [kind |-> "absent"]),
      Response(TRUE, TRUE, ResultOk, [kind |-> "absent"]),
      Response(TRUE, TRUE, ResultOk, [kind |-> "noitems"]),
      Response(TRUE, TRUE, ResultOk, [kind |-> "array", elems |-> <<>>]) }

\* Exchanges that carry the record v, as an array of one or as an object.
ResponsesWith(v) ==
    { Response(TRUE, TRUE, ResultOk, [kind |-> "array", elems |-> <<v>>]),
      Response(TRUE, TRUE, ResultOk, [kind |-> "object", value |-> v]),
      Response(TRUE, TRUE, <<"0", "3">>, [kind |-> "object", value |-> v]) }

CommonResponses == EmptyResponses \cup UNION {ResponsesWith(d) : d \in DetailRecords}

IntroResponses == EmptyResponses \cup UNION {ResponsesWith(i) : i \in IntroRecords}

\* PlaceDetailPage up to its first await: getDetailCommon(contentId) is
\* called.
OpenPage(contentId) ==
    [pc |-> "common", contentId |-> contentId,
     fetches |-> <<[api |-> "detailCommon2", contentId |-> contentId]>>]

InitDetail ==
    /\ Mounted(Descriptor("", DefaultAreaCode, "", <<>>, "latest"), 5, 5)
    /\ call = NoCall
    /\ ret = NoCall
    /\ \E id \in ContentIds : detailPage = OpenPage(id)
    /\ NoButtons
    /\ bookmarkList = NoList
    /\ mapLoader = NoMap

\* getDetailCommon settles: the catch block returns the error page, a
\* missing record the not-found page, and otherwise getDetailIntro is called
\* with the record's contentid and contenttypeid.
CommonSettles(resp) ==
    LET r == getDetail(resp) IN
    /\ detailPage.pc = "common"
    /\ detailPage' =
         IF r.threw
         THEN [pc |-> "done", contentId |-> detailPage.contentId,
               fetches |-> detailPage.fetches, view |-> "error"]
         ELSE IF r.value = Undefined
         THEN [pc |-> "done", contentId |-> detailPage.contentId,
               fetches |-> detailPage.fetches, view |-> "not-found"]
         ELSE [pc |-> "intro", contentId |-> detailPage.contentId,
               fetches |-> Append(detailPage.fetches,
                                  [api |-> "detailIntro2",
                                   contentId |-> r.value.contentid,
                                   contentTypeId |-> r.value.contenttypeid]),
               common |-> r.value]
    /\ UNCHANGED <<accVars, pureVars, bookmarkVars, listVars, mapVars>>

\* Mutant of IntroOrNull: a failed intro fetch is not caught.
IntroOrThrow(r) == r

\* The inner try/catch: a getDetailIntro that throws leaves intro null, and
\* so does one that returns null (reading intro.homepage throws inside the
\* same try).
IntroOrNull(r) == IF r.threw THEN Returned(Undefined) ELSE r

\* getDetailIntro settles: the merges run and the page is returned.  common
\* is the record as fetched, detail the record handed to DetailInfo.
IntroSettles(resp) ==
    LET r == getDetail(resp)
        got == IntroOrNull(r)
        c == detailPage.common
        phone == MergePhone(c.tel, got.value)
    IN
    /\ detailPage.pc = "intro"
    /\ detailPage' =
         IF got.threw
         THEN [pc |-> "done", contentId |-> detailPage.contentId,
               fetches |-> detailPage.fetches, view |-> "error"]
         ELSE [pc |-> "done", contentId |-> detailPage.contentId,
               fetches |-> detailPage.fetches, view |-> "detail",
               common |-> c,
               introFetch |-> IF r.threw THEN "failed"
                              ELSE IF r.value = Undefined THEN "nothing"
                              ELSE "record",
               intro |-> got.value,
               telConsulted |-> phone.consulted,
               detail |-> TourDetail(c.contentid, c.contenttypeid, phone.tel,
                                     MergeHomepage(c.homepage, got.value))]
    /\ UNCHANGED <<accVars, pureVars, bookmarkVars, listVars, mapVars>>

NextDetail ==
    \/ \E resp \in CommonResponses : CommonSettles(resp)
    \/ \E resp \in IntroResponses : IntroSettles(resp)

SpecDetail == InitDetail /\ [][NextDetail]_vars

\* ------------------------------------------- normalizeHomepageUrl alone
\* Longest generated text between the scheme and the trailing blank.
MaxBody == 3

BodyChars == {"a", ".", " ", "/", ":", "<", ">"}

Bodies == UNION {[1..n -> BodyChars] : n \in 0..MaxBody}

\* Homepage strings with markup, and the sentinels in several spellings.
MarkupAndSentinels ==
    { <<"<", "a", " ", "h", "r", "e", "f", "=", "\"", "h", "t", "t", "p", ":",
        "/", "/", "a", ".", "a", "\"", ">", "a", "<", "/", "a", ">">>,
      <<"<", "a", ">", "h", "t", "t", "p", "s", ":", "/", "/", "a", ".", "a",
        "<", "/", "a", ">">>,
      <<"<", "a", ">", "a", ".", "a", "<", "/", "a", ">">>,
      <<"<", "a", " ", "h", "r", "e", "f", "=", "'", "-", "'", ">">>,
      <<"<", "a", " ", "h", "r", "e", "f", "=", "'", "a", " ", "a", "'", ">">>,
      <<"h", "t", "t", "p", "s", ":", "/", "/", "a", "/", "<", "a", " ", "h",
        "r", "e", "f", "=", "'", "a", ".", "a", "'", ">">>,
      <<" ", "N", "/", "A", " ">>, <<"n", "/", "A">>, <<"-">>,
      <<"n", "u", "l", "l">>,
      <<"u", "n", "d", "e", "f", "i", "n", "e", "d">>,
      <<"U+C5C6", "U+C74C">> }

HomepageInputs ==
    {Undefined}
    \cup {Str(t) : t \in MarkupAndSentinels}
    \cup {Str(pre \o scheme \o body \o post) :
             pre \in {<<>>, <<" ">>},
             scheme \in {<<>>, HttpPrefix, HttpsPrefix},
             body \in Bodies,
             post \in {<<>>, <<" ">>}}

InitHomepage ==
    /\ Mounted(Descriptor("", DefaultAreaCode, "", <<>>, "latest"), 5, 5)
    /\ call \in {[fn |-> "normalizeHomepageUrl", url |-> u] :
                   u \in HomepageInputs}
    /\ ret = NoCall
    /\ detailPage = NoPage
    /\ NoButtons
    /\ bookmarkList = NoList
    /\ mapLoader = NoMap

\* const homepageUrl = normalizeHomepageUrl(detail.homepage)
ApplyNormalize ==
    /\ call.fn = "normalizeHomepageUrl"
    /\ ret = NoCall
    /\ ret' = [fn |-> "normalizeHomepageUrl", threw |-> FALSE,
               value |-> normalizeHomepageUrl(call.url)]
    /\ UNCHANGED <<accVars, call, pageVars, bookmarkVars, listVars,
                   mapVars>>

SpecHomepage == InitHomepage /\ [][ApplyNormalize]_vars

\* -------------------------------------------- convertKatecToWgs84 alone
\* Longest generated coordinate text.
MaxCoordLen == 5

CoordChars == {"0", "1", "9", ".", "-", " ", "x"}

\* Coordinate texts: every text up to MaxCoordLen over CoordChars, and the
\* two forms the upstream sends.
CoordTexts ==
    UNION {[1..n -> CoordChars] : n \in 0..MaxCoordLen}
    \cup { <<"1", "2", "6", "9", "8", "1", "2", "3", "4", "5">>,
           <<"1", "2", "6", ".", "9", "8", "1", "2", "3", "4", "5">> }

InitCoord ==
    /\ Mounted(Descriptor("", DefaultAreaCode, "", <<>>, "latest"), 5, 5)
    /\ call \in {[fn |-> "convertKatecToWgs84", katecCoord |-> t] :
                   t \in CoordTexts}
    /\ ret = NoCall
    /\ detailPage = NoPage
    /\ NoButtons
    /\ bookmarkList = NoList
    /\ mapLoader = NoMap

ApplyConvert ==
    /\ call.fn = "convertKatecToWgs84"
    /\ ret = NoCall
    /\ ret' = [fn |-> "convertKatecToWgs84", threw |-> FALSE,
               value |-> convertKatecToWgs84(call.katecCoord)]
    /\ UNCHANGED <<accVars, call, pageVars, bookmarkVars, listVars,
                   mapVars>>

SpecCoord == InitCoord /\ [][ApplyConvert]_vars

\* ------------------------------------------------- calculateCenter alone
\* Longest list calculateCenter is applied to.
MaxTours == 2

\* mapx / mapy values: missing, empty, "0", not a number, degrees, and the
\* fixed-point form of 2 degrees.
CoordValues ==
    { Undefined, Str(<<>>), Str(<<"0">>), Str(<<"x">>), Str(<<"1">>),
      Str(<<"3">>), Str(<<"2", "0", "0", "0", "0", "0", "0", "0">>) }

TourLists ==
    UNION {[1..n -> [mapx : CoordValues, mapy : CoordValues]] :
              n \in 0..MaxTours}

InitCenter ==
    /\ Mounted(Descriptor("", DefaultAreaCode, "", <<>>, "latest"), 5, 5)
    /\ call \in {[fn |-> "calculateCenter", tours |-> ts] : ts \in TourLists}
    /\ ret = NoCall
    /\ detailPage = NoPage
    /\ NoButtons
    /\ bookmarkList = NoList
    /\ mapLoader = NoMap

\* const center = calculateCenter(tours) || DEFAULT_CENTER
ApplyCenter ==
    /\ call.fn = "calculateCenter"
    /\ ret = NoCall
    /\ ret' = [fn |-> "calculateCenter", value |-> calculateCenter(call.tours)]
    /\ UNCHANGED <<accVars, call, pageVars, bookmarkVars, listVars,
                   mapVars>>

SpecCenter == InitCenter /\ [][ApplyCenter]_vars

\* ---------------------------------------------------- fetchTourApi alone
\* Longest item array in a response.
MaxArray == 2

ResultCodes ==
    {ResultOk, <<"0">>, <<"0", "3">>, <<"9", "9", "9", "9">>, <<>>}

ItemShapes ==
    {[kind |-> "array", elems |-> [i \in 1..n |-> i]] : n \in 0..MaxArray}
    \cup {[kind |-> "object", value |-> 1], [kind |-> "absent"],
          [kind |-> "noitems"]}

ListResponses ==
    {Response(ok, json, code, item) :
        ok \in BOOLEAN, json \in BOOLEAN, code \in ResultCodes,
        item \in ItemShapes}

InitFetch ==
    /\ Mounted(Descriptor("", DefaultAreaCode, "", <<>>, "latest"), 5, 5)
    /\ call \in {[fn |-> "getAreaBasedList", resp |-> r] : r \in ListResponses}
    /\ ret = NoCall
    /\ detailPage = NoPage
    /\ NoButtons
    /\ bookmarkList = NoList
    /\ mapLoader = NoMap

\* getAreaBasedList / searchKeyword with the exchange call.resp: what
\* fetchTourApi did and what the list function did.
ApplyFetch ==
    /\ call.fn = "getAreaBasedList"
    /\ ret = NoCall
    /\ ret' = [fn |-> "getAreaBasedList", fetched |-> fetchTourApi(call.resp),
               list |-> getList(call.resp)]
    /\ UNCHANGED <<accVars, call, pageVars, bookmarkVars, listVars,
                   mapVars>>

SpecFetch == InitFetch /\ [][ApplyFetch]_vars

\* ------------------------------------------------------ the bookmark button
\* Mounted BookmarkButton components (the same page open twice, two pages).
NumButtons == 2

Buttons == 1..NumButtons

\* Clicks in one behaviour.
MaxClicks == 2

UserIds == {"u1", "u2"}

BookmarkContentIds == {"125266", "264337"}

\* What a render of the button captures.
ButtonSnapshot(b) ==
    [isBookmarkedState |-> b.isBookmarkedState, isLoading |-> b.isLoading,
     isProcessing |-> b.isProcessing]

\* A signed-in user's button after its first render: the useState
\* initializers ran and checkBookmarkStatus is waiting for the store.
MountedButton(userId, contentId) ==
    [userId |-> userId, contentId |-> contentId,
     isBookmarkedState |-> FALSE, isLoading |-> TRUE, isProcessing |-> FALSE,
     rendered |-> [isBookmarkedState |-> FALSE, isLoading |-> TRUE,
                   isProcessing |-> FALSE],
     checking |-> TRUE,
     pending |-> <<>>,
     toast |-> "",
     lastAdd |-> [seen |-> FALSE]]

InitBookmarks ==
    /\ Mounted(Descriptor("", DefaultAreaCode, "", <<>>, "latest"), 5, 5)
    /\ call = NoCall
    /\ ret = NoCall
    /\ detailPage = NoPage
    /\ bookmarks = {}
    /\ nextRowId = 1
    /\ clicks = 0
    /\ buttons \in {[b \in Buttons |-> MountedButton(u[b], c[b])] :
                      u \in [Buttons -> UserIds],
                      c \in [Buttons -> BookmarkContentIds]}
    /\ bookmarkList = NoList
    /\ mapLoader = NoMap

BookmarkFrame == UNCHANGED <<accVars, pureVars, pageVars, listVars, mapVars>>

\* checkBookmarkStatus settles: isBookmarked answered from the store, or the
\* lookup failed and the catch block set false.
CheckSettles(b, failed) ==
    LET s == buttons[b] IN
    /\ s.checking
    /\ buttons' = [buttons EXCEPT ![b] =
          [s EXCEPT !.checking = FALSE,
                    !.isLoading = FALSE,
                    !.isBookmarkedState =
                        IF failed THEN FALSE
                        ELSE HasBookmark(bookmarks, s.userId, s.contentId)]]
    /\ UNCHANGED <<bookmarks, nextRowId, clicks>>
    /\ BookmarkFrame

\* The button re-renders with its current state.
RenderButton(b) ==
    LET s == buttons[b] IN
    /\ s.rendered # ButtonSnapshot(s)
    /\ buttons' = [buttons EXCEPT ![b] = [s EXCEPT !.rendered = ButtonSnapshot(s)]]
    /\ UNCHANGED <<bookmarks, nextRowId, clicks>>
    /\ BookmarkFrame

\* A click on the button as last rendered: handleToggleBookmark runs to the
\* await of getUserIdFromClerkId.  The handler reads isProcessing and
\* isBookmarkedState of the render it belongs to.  setIsProcessing(true) is
\* an update made inside a click event, which React renders before the next
\* event is dispatched, so the button is disabled when the action ends.
\* before is history: isBookmarkedState when the click was made.
Click(b) ==
    LET s == buttons[b]
        t == [s EXCEPT !.isProcessing = TRUE,
                       !.pending = Append(s.pending,
                           [stage |-> "userId",
                            op |-> IF s.rendered.isBookmarkedState
                                   THEN "remove" ELSE "add",
                            before |-> s.isBookmarkedState])]
    IN
    /\ clicks < MaxClicks
    /\ ~(s.rendered.isLoading \/ s.rendered.isProcessing)
    /\ ~s.rendered.isProcessing
    /\ buttons' = [buttons EXCEPT ![b] =
                      [t EXCEPT !.rendered = ButtonSnapshot(t)]]
    /\ clicks' = clicks + 1
    /\ UNCHANGED <<bookmarks, nextRowId>>
    /\ BookmarkFrame

\* getUserIdFromClerkId settles for the oldest running handler of button b:
\* without a user id the handler shows a message and returns, with one it
\* sends the insert or delete.
UserIdSettles(b, found) ==
    LET s == buttons[b] IN
    /\ s.pending # <<>> /\ s.pending[1].stage = "userId"
    /\ buttons' = [buttons EXCEPT ![b] =
          IF found
          THEN [s EXCEPT !.pending[1].stage = "sent"]
          ELSE [s EXCEPT !.pending = Tail(s.pending),
                         !.isProcessing = FALSE,
                         !.toast = "no-user"]]
    /\ UNCHANGED <<bookmarks, nextRowId, clicks>>
    /\ BookmarkFrame

\* The store executes the request of button b, or the request fails before
\* it reaches the table.
StoreExecutes(b, failed) ==
    LET s == buttons[b]
        p == s.pending[1]
        inserted == InsertRow(bookmarks, nextRowId, s.userId, s.contentId)
        answer == IF failed THEN [rows |-> bookmarks, error |-> "network"]
                  ELSE IF p.op = "add" THEN inserted
                  ELSE [rows |-> DeleteRows(bookmarks, s.userId, s.contentId),
                        error |-> ""]
    IN
    /\ s.pending # <<>> /\ p.stage = "sent"
    /\ bookmarks' = answer.rows
    /\ nextRowId' = IF answer.rows = bookmarks THEN nextRowId ELSE nextRowId + 1
    /\ buttons' = [buttons EXCEPT ![b] =
          [s EXCEPT !.pending[1] =
              [stage |-> "answered", op |-> p.op, before |-> p.before,
               answer |-> answer,
               existed |-> HasBookmark(bookmarks, s.userId, s.contentId),
               unchanged |-> (answer.rows = bookmarks)]]]
    /\ UNCHANGED clicks
    /\ BookmarkFrame

\* The answer reaches the handler of button b: addBookmark / removeBookmark
\* return or throw, and handleToggleBookmark runs to its end.
AnswerArrives(b) ==
    LET s == buttons[b]
        p == s.pending[1]
        r == IF p.op = "add" THEN addBookmark(p.answer)
             ELSE removeBookmark(p.answer)
        marked == IF r.threw THEN s.isBookmarkedState
                  ELSE IF p.op = "add" THEN TRUE ELSE FALSE
    IN
    /\ s.pending # <<>> /\ p.stage = "answered"
    /\ buttons' = [buttons EXCEPT ![b] =
          [s EXCEPT
             !.pending = Tail(s.pending),
             !.isProcessing = FALSE,
             !.isBookmarkedState = marked,
             !.toast = IF r.threw THEN "error"
                       ELSE IF p.op = "remove" THEN "removed"
                       ELSE IF r.value # Undefined THEN "added"
                       ELSE "already",
             !.lastAdd = IF p.op = "add"
                         THEN [seen |-> TRUE, existed |-> p.existed,
                               unchanged |-> p.unchanged,
                               failed |-> (p.answer.error = "network"),
                               result |-> r, markedAfter |-> marked]
                         ELSE s.lastAdd]]
    /\ UNCHANGED <<bookmarks, nextRowId, clicks>>
    /\ BookmarkFrame

NextBookmarks ==
    \/ \E b \in Buttons, failed \in BOOLEAN : CheckSettles(b, failed)
    \/ \E b \in Buttons : RenderButton(b)
    \/ \E b \in Buttons : Click(b)
    \/ \E b \in Buttons, found \in BOOLEAN : UserIdSettles(b, found)
    \/ \E b \in Buttons, failed \in BOOLEAN : StoreExecutes(b, failed)
    \/ \E b \in Buttons : AnswerArrives(b)

SpecBookmarks == InitBookmarks /\ [][NextBookmarks]_vars

\* ---------------------------------------------------- Home's parsing alone
KeywordParams ==
    {Undefined, Str(<<>>), Str(<<" ">>), Str(<<"k">>), Str(<<" ", "k", " ">>)}

AreaParams ==
    {Undefined, Str(<<>>), Str(AllSentinel), Str(<<"1">>), Str(<<"2">>),
     Str(<<"3", "9">>)}

SubAreaParams == {Undefined, Str(<<>>), Str(AllSentinel), Str(<<"5">>)}

ContentTypeParams ==
    {Undefined, Str(<<>>), Str(<<"1", "2">>),
     Str(<<"1", "2", ",", "3", "9">>), Str(<<"3", "9", ",", "1", "2">>),
     Str(<<",", "1", "4">>)}

SortParams == {Undefined, Str(<<"n", "a", "m", "e">>)}

Queries ==
    {[keyword |-> k, areaCode |-> a, subAreaCode |-> s, contentTypeId |-> c,
      sort |-> o] :
        k \in KeywordParams, a \in AreaParams, s \in SubAreaParams,
        c \in ContentTypeParams, o \in SortParams}

InitHome ==
    /\ Mounted(Descriptor("", DefaultAreaCode, "", <<>>, "latest"), 5, 5)
    /\ call \in {[fn |-> "Home", params |-> q] : q \in Queries}
    /\ ret = NoCall
    /\ detailPage = NoPage
    /\ NoButtons
    /\ bookmarkList = NoList
    /\ mapLoader = NoMap

\* Home with the query call.params: the descriptor it parses, its request
\* for the first page, and the request loadMore builds from that descriptor
\* for the next page.
ApplyHome ==
    /\ call.fn = "Home"
    /\ ret = NoCall
    /\ LET d == HomeDescriptor(call.params)
       IN  ret' = [fn |-> "Home", desc |-> d, first |-> HomeRequest(d),
                   more |-> LoadMoreRequest([desc |-> d, currentPage |-> 1])]
    /\ UNCHANGED <<accVars, call, pageVars, bookmarkVars, listVars,
                   mapVars>>

SpecHome == InitHome /\ [][ApplyHome]_vars

\* ------------------------------------------------------- the bookmark list
\* Bookmarks the list is mounted with, at most.
MaxBookmarks == 3
\* Deletes awaiting their answer at one time, at most.
MaxPending == 2

ListIds == {"a", "b", "c"}

\* The tour item getDetailCommon answers for each content id.  Two titles
\* are equal and one item has no areacode, so that the three orders differ.
ListCatalogue ==
    [id \in ListIds |->
        CASE id = "a" -> [contentid |-> id, title |-> <<"n">>,
                          areacode |-> <<"2">>, addr1 |-> <<"s">>]
          [] id = "b" -> [contentid |-> id, title |-> <<"m">>,
                          areacode |-> <<>>, addr1 |-> <<"1", "k">>]
          [] id = "c" -> [contentid |-> id, title |-> <<"m">>,
                          areacode |-> <<"1">>, addr1 |-> <<"t">>]]

\* created_at of the bookmark of each content id, as Date.getTime() reads it.
ListCreatedAt == [id \in ListIds |-> CASE id = "a" -> 3 [] id = "b" -> 2
                                       [] id = "c" -> 1]

\* Characters in collation order.
Collation == <<"1", "2", "k", "m", "n", "s", "t">>

CollationRank(ch) == CHOOSE i \in DOMAIN Collation : Collation[i] = ch

\* a || b on strings: a unless it is empty.
OrElse(a, b) == IF a # <<>> THEN a ELSE b

\* String.prototype.localeCompare: negative, zero or positive.
RECURSIVE LocaleCompare(_, _)
LocaleCompare(x, y) ==
    IF x = <<>> THEN (IF y = <<>> THEN 0 ELSE -1)
    ELSE IF y = <<>> THEN 1
    ELSE IF x[1] = y[1] THEN LocaleCompare(Tail(x), Tail(y))
    ELSE CollationRank(x[1]) - CollationRank(y[1])

\* Array.prototype.sort with comparator cmp (a function of the pair): the
\* sort is stable.
RECURSIVE ArraySort(_, _)
ArraySort(items, cmp) ==
    IF items = <<>> THEN <<>>
    ELSE LET n == Len(items)
             rest == ArraySort(SubSeq(items, 1, n - 1), cmp)
             x == items[n]
             after == {i \in DOMAIN rest : cmp[<<rest[i], x>>] > 0}
             p == IF after = {} THEN Len(rest) + 1
                  ELSE CHOOSE i \in after : \A j \in after : i <= j
         IN SubSeq(rest, 1, p - 1) \o <<x>> \o SubSeq(rest, p, Len(rest))

SortOptions == {"latest", "name", "region"}

\* bookmarks.find((bm) => bm.content_id === id)
FindBookmark(bms, id) ==
    IF \E i \in DOMAIN bms : bms[i].content_id = id
    THEN LET i == CHOOSE k \in DOMAIN bms :
                      /\ bms[k].content_id = id
                      /\ \A j \in 1..(k - 1) : bms[j].content_id # id
         IN bms[i]
    ELSE Undefined

\* The comparator of each sort option.
ListComparator(l, option) ==
    LET S == {l.tourItems[i] : i \in DOMAIN l.tourItems} IN
    [p \in S \X S |->
        CASE option = "latest" ->
               LET bookmarkA == FindBookmark(l.bookmarks, p[1].contentid)
                   bookmarkB == FindBookmark(l.bookmarks, p[2].contentid)
               IN IF bookmarkA = Undefined \/ bookmarkB = Undefined THEN 0
                  ELSE bookmarkB.created_at - bookmarkA.created_at
          [] option = "name" -> LocaleCompare(p[1].title, p[2].title)
          [] option = "region" ->
               LocaleCompare(OrElse(p[1].areacode, p[1].addr1),
                             OrElse(p[2].areacode, p[2].addr1))]

\* sortedTourItems: the items as displayed.
sortedTourItems(l) == ArraySort(l.tourItems, ListComparator(l, l.sortBy))

DisplayedIds(l) ==
    {sortedTourItems(l)[i].contentid : i \in DOMAIN sortedTourItems(l)}

\* The ids a sequence of ids keeps in order of decreasing created_at, which
\* is the order getBookmarks was asked for.
RECURSIVE NewestFirst(_)
NewestFirst(ids) ==
    IF ids = {} THEN <<>>
    ELSE LET id == CHOOSE x \in ids :
                       \A y \in ids : ListCreatedAt[y] <= ListCreatedAt[x]
         IN <<id>> \o NewestFirst(ids \ {id})

\* The list after loadBookmarks has settled for a signed-in user: the
\* bookmarks of the user, and the tour items whose detail was found.
LoadedList(ids, found) ==
    LET order == NewestFirst(ids) IN
    [pc |-> "mounted",
     signedIn |-> TRUE,
     bookmarks |-> [i \in DOMAIN order |->
                       [content_id |-> order[i],
                        created_at |-> ListCreatedAt[order[i]]]],
     tourItems |-> SelectSeq([i \in DOMAIN order |-> ListCatalogue[order[i]]],
                             LAMBDA t : t.contentid \in found),
     isDeleting |-> FALSE,
     selectedIds |-> {},
     sortBy |-> "latest",
     pending |-> <<>>,
     last |-> [op |-> "mount"]]

InitList ==
    /\ Mounted(Descriptor("", DefaultAreaCode, "", <<>>, "latest"), 5, 5)
    /\ call = NoCall
    /\ ret = NoCall
    /\ detailPage = NoPage
    /\ NoButtons
    /\ mapLoader = NoMap
    /\ \E ids \in SUBSET ListIds :
          /\ Cardinality(ids) <= MaxBookmarks
          /\ \E found \in SUBSET ids :
                bookmarkList = LoadedList(ids, found)

ListFrame == UNCHANGED <<accVars, pureVars, pageVars, bookmarkVars, mapVars>>

\* The controls and cards are rendered when there is an item to display.
ListShown(l) == l.pc = "mounted" /\ Len(sortedTourItems(l)) > 0

\* toggleSelection, from the checkbox of a displayed item.
ToggleSelection(contentId) ==
    LET l == bookmarkList IN
    /\ ListShown(l)
    /\ contentId \in DisplayedIds(l)
    /\ bookmarkList' =
          [l EXCEPT !.selectedIds =
                        IF contentId \in l.selectedIds
                        THEN l.selectedIds \ {contentId}
                        ELSE l.selectedIds \cup {contentId},
                    !.last = [op |-> "toggleSelection"]]
    /\ ListFrame

\* toggleSelectAll
ToggleSelectAll ==
    LET l == bookmarkList IN
    /\ ListShown(l)
    /\ bookmarkList' =
          [l EXCEPT !.selectedIds =
                        IF Cardinality(l.selectedIds) = Len(sortedTourItems(l))
                        THEN {}
                        ELSE DisplayedIds(l),
                    !.last = [op |-> "toggleSelectAll"]]
    /\ ListFrame

\* The sort select changes.
SetSortBy(option) ==
    LET l == bookmarkList IN
    /\ ListShown(l)
    /\ option # l.sortBy
    /\ bookmarkList' = [l EXCEPT !.sortBy = option,
                                 !.last = [op |-> "setSortBy"]]
    /\ ListFrame

\* handleBatchDelete up to its first await.  The button is rendered while
\* something is selected and is disabled while isDeleting; the handler keeps
\* the selectedIds of the render it was created in.
ClickBatchDelete ==
    LET l == bookmarkList IN
    /\ ListShown(l)
    /\ l.selectedIds # {}
    /\ ~l.isDeleting
    /\ l.signedIn
    /\ Len(l.pending) < MaxPending
    /\ bookmarkList' =
          [l EXCEPT !.isDeleting = TRUE,
                    !.pending = Append(@, [kind |-> "batch",
                                           ids |-> l.selectedIds]),
                    !.last = [op |-> "handleBatchDelete"]]
    /\ ListFrame

\* handleDelete up to its first await, from the delete button of a displayed
\* item.
ClickDelete(contentId) ==
    LET l == bookmarkList IN
    /\ ListShown(l)
    /\ contentId \in DisplayedIds(l)
    /\ l.signedIn
    /\ Len(l.pending) < MaxPending
    /\ bookmarkList' =
          [l EXCEPT !.pending = Append(@, [kind |-> "single",
                                           ids |-> {contentId}]),
                    !.last = [op |-> "handleDelete"]]
    /\ ListFrame

\* handleBatchDelete after removeBookmarks has returned.
AfterBatchDelete(l, ids) ==
    [l EXCEPT !.bookmarks = SelectSeq(@, LAMBDA bm : bm.content_id \notin ids),
              !.tourItems = SelectSeq(@, LAMBDA t : t.contentid \notin ids),
              !.selectedIds = {},
              !.isDeleting = FALSE]

\* handleDelete after removeBookmark has returned.
AfterDelete(l, ids) ==
    [l EXCEPT !.bookmarks = SelectSeq(@, LAMBDA bm : bm.content_id \notin ids),
              !.tourItems = SelectSeq(@, LAMBDA t : t.contentid \notin ids)]

\* The rest of a delete handler: the user id lookup and the delete have
\* returned (ok), or one of them threw and the catch block showed the toast.
DeleteSettles(k, ok) ==
    LET l == bookmarkList
        op == l.pending[k]
        done == IF ~ok
                THEN IF op.kind = "batch"
                     THEN [l EXCEPT !.isDeleting = FALSE]
                     ELSE l
                ELSE IF op.kind = "batch"
                     THEN AfterBatchDelete(l, op.ids)
                     ELSE AfterDelete(l, op.ids)
    IN
    /\ l.pc = "mounted"
    /\ k \in DOMAIN l.pending
    /\ bookmarkList' =
          [done EXCEPT !.pending = RemoveAt(l.pending, k),
                       !.last = [op |-> "settle", kind |-> op.kind,
                                 ids |-> op.ids, ok |-> ok]]
    /\ ListFrame

NextList ==
    \/ \E id \in ListIds : ToggleSelection(id)
    \/ ToggleSelectAll
    \/ \E option \in SortOptions : SetSortBy(option)
    \/ ClickBatchDelete
    \/ \E id \in ListIds : ClickDelete(id)
    \/ \E k \in 1..MaxPending, ok \in BOOLEAN : DeleteSettles(k, ok)

SpecList == InitList /\ [][NextList]_vars

\* ------------------------------------------------- map SDK readiness polling
\* maxRetries of NaverMap's handleScriptLoad.
NaverMapMaxRetries == 10

\* maxRetries of DetailMap's handleScriptLoad.
DetailMapMaxRetries == 15

\* maxChecks of NaverMap's mount-time effect.
MaxChecks == 50

MapComponents == {"NaverMap", "DetailMap"}

maxRetries(component) ==
    IF component = "NaverMap" THEN NaverMapMaxRetries ELSE DetailMapMaxRetries

\* The message set when the script loaded but the handle never showed.
InitializationError == "init"

\* The message set by handleScriptError.
ScriptLoadError == "script"

NoInterval == [state |-> "none", count |-> 0]

\* A map component after its mount effects.  handle is window.naver?.maps,
\* which an earlier page may have left in place.  NaverMap's effect sets
\* isLoaded when the handle is there and starts its interval otherwise;
\* DetailMap's effect only looks once.
MountedMap(component, handle) ==
    [component |-> component,
     handle |-> handle,
     script |-> "loading",
     isLoaded |-> handle,
     error |-> "",
     checkNaverMaps |-> NoInterval,
     pollerSetLoaded |-> FALSE,
     pollerSetError |-> FALSE,
     interval |-> IF component = "NaverMap" /\ ~handle
                  THEN [state |-> "running", count |-> 0]
                  ELSE NoInterval]

InitMap ==
    /\ Mounted(Descriptor("", DefaultAreaCode, "", <<>>, "latest"), 5, 5)
    /\ call = NoCall
    /\ ret = NoCall
    /\ detailPage = NoPage
    /\ NoButtons
    /\ bookmarkList = NoList
    /\ \E component \in MapComponents, handle \in BOOLEAN :
          mapLoader = MountedMap(component, handle)

MapFrame == UNCHANGED <<accVars, pureVars, pageVars, bookmarkVars, listVars>>

\* The SDK defines window.naver.maps: while the script runs, or later.
HandleAppears ==
    /\ mapLoader.component \in MapComponents
    /\ ~mapLoader.handle
    /\ mapLoader.script # "failed"
    /\ mapLoader' = [mapLoader EXCEPT !.handle = TRUE]
    /\ MapFrame

\* handleScriptLoad: the script's load event starts the interval.
ScriptLoad ==
    /\ mapLoader.component \in MapComponents
    /\ mapLoader.script = "loading"
    /\ mapLoader' = [mapLoader EXCEPT
                        !.script = "loaded",
                        !.checkNaverMaps = [state |-> "running", count |-> 0]]
    /\ MapFrame

\* handleScriptError
ScriptError ==
    /\ mapLoader.component \in MapComponents
    /\ mapLoader.script = "loading"
    /\ ~mapLoader.handle
    /\ mapLoader' = [mapLoader EXCEPT !.script = "failed",
                                      !.error = ScriptLoadError]
    /\ MapFrame

\* One tick of the interval of handleScriptLoad.
ScriptTick ==
    LET m == mapLoader
        retryCount == m.checkNaverMaps.count + 1
    IN
    /\ m.component \in MapComponents
    /\ m.checkNaverMaps.state = "running"
    /\ mapLoader' =
          IF m.handle
          THEN [m EXCEPT !.isLoaded = TRUE,
                         !.pollerSetLoaded = TRUE,
                         !.checkNaverMaps = [state |-> "cleared",
                                             count |-> retryCount]]
          ELSE IF retryCount >= maxRetries(m.component)
          THEN [m EXCEPT !.error = InitializationError,
                         !.pollerSetError = TRUE,
                         !.checkNaverMaps = [state |-> "cleared",
                                             count |-> retryCount]]
          ELSE [m EXCEPT !.checkNaverMaps.count = retryCount]
    /\ MapFrame

\* One tick of the interval of NaverMap's mount-time effect.
MountTick ==
    LET m == mapLoader
        checkCount == m.interval.count + 1
    IN
    /\ m.component = "NaverMap"
    /\ m.interval.state = "running"
    /\ mapLoader' =
          IF m.handle
          THEN [m EXCEPT !.isLoaded = TRUE,
                         !.interval = [state |-> "cleared",
                                       count |-> checkCount]]
          ELSE IF checkCount >= MaxChecks
          THEN [m EXCEPT !.interval = [state |-> "cleared",
                                       count |-> checkCount]]
          ELSE [m EXCEPT !.interval.count = checkCount]
    /\ MapFrame

NextMap ==
    \/ HandleAppears
    \/ ScriptLoad
    \/ ScriptError
    \/ ScriptTick
    \/ MountTick

SpecMap == InitMap /\ [][NextMap]_vars

\* ----------------------------------------------------------------- claims
\* C1: at most one loadMore request is outstanding at any time, in every
\* interleaving of triggers, renders and responses.
C1_AtMostOneOutstanding == Len(inflight) <= 1

\* C2: a reset signal whose key (ordered ids, totalCount, sortBy) equals the
\* key of the signal before it changes none of tours, currentPage, hasMore.
C2_ResetIdempotent ==
    [][(last'.op = "render" /\ last'.signal /\ last'.sameAsLastSignal)
       => UNCHANGED <<tours, currentPage, hasMore>>]_vars

\* C2 witness: the second of two equal signals was processed and the page
\* loaded between them is still held.
C2_Witness ==
    /\ last.op = "render" /\ last.signal /\ last.sameAsLastSignal
    /\ currentPage = 2
    /\ Len(tours) > Len(props.initialTours)

\* C3: a signal whose key equals the key the accumulator was last
\* initialized or reset with (mount included) changes none of tours,
\* currentPage, hasMore.
C3_NoOpReinitNeverMutates ==
    [][(last'.op = "render" /\ last'.signal /\ last'.sameAsLastInit)
       => UNCHANGED <<tours, currentPage, hasMore>>]_vars

\* C4: no loadMore request is sent with a descriptor other than the one
\* under which its page cursor (> 1) was reached.
C4_NoStaleCursorRequest == last.op = "loadMore" => ~last.staleCursor

\* C5: after mount, and after every signal whose key differs from the key of
\* the signal before it, tours is the given first page, currentPage is 1 and
\* hasMore is (first page length < totalCount).
C5_InitializeSetsAll ==
    (\/ last.op = "mount"
     \/ (last.op = "render" /\ last.signal /\ ~last.sameAsLastSignal))
    => /\ tours = props.initialTours
       /\ currentPage = 1
       /\ hasMore = (Len(props.initialTours) < props.totalCount)

\* C5 witness: a reset replaced an accumulator that had loaded a second page
\* by a first page shorter than its totalCount.
C5_Witness ==
    /\ last.op = "render" /\ last.reset /\ ~last.sameAsLastInit
    /\ reqs > 0 /\ currentPage = 1 /\ hasMore
    /\ tours = props.initialTours

\* C6: the server action reports hasMore iff the page holds exactly
\* NumOfRows items, and a resolved loadMore whose page is shorter leaves
\* hasMore false.
C6_ShortPageExhausts ==
    last.op = "resolve"
    => /\ last.serverHasMore = (last.fetched = NumOfRows)
       /\ (last.fetched < NumOfRows => ~hasMore)

\* C6 witness: a short page resolved while fewer items than totalCount are
\* held.
C6_Witness ==
    /\ last.op = "resolve" /\ last.fetched < NumOfRows
    /\ hasMoreSrc.total = props.totalCount
    /\ Len(tours) < props.totalCount
    /\ ~hasMore

\* C7: no loadMore request is issued while hasMore is false.
C7_NoRequestOnceExhausted == last.op = "loadMore" => last.stateHasMore

\* C8: hasMore is true iff the most recently fetched page held exactly
\* NumOfRows items and fewer items than totalCount are accumulated.
C8_HasMoreIffFullAndBelowTotal ==
    hasMore = (hasMoreSrc.fetched = NumOfRows /\ Len(tours) < hasMoreSrc.total)

\* C8 as amended: hasMore is (first page length < totalCount) when it was
\* last set by initialize or reset, and (the page held exactly NumOfRows items
\* and was non-empty after the filter) when last set by a loadMore.
C8_HasMoreBySource ==
    hasMore = IF hasMoreSrc.by = "init"
              THEN hasMoreSrc.len < hasMoreSrc.total
              ELSE hasMoreSrc.fetched = NumOfRows /\ hasMoreSrc.len > 0

\* C8 witness: a full page was appended, totalCount is reached and hasMore
\* is still true.
C8_Witness ==
    /\ hasMoreSrc.by = "load" /\ hasMoreSrc.fetched = NumOfRows
    /\ Len(tours) >= hasMoreSrc.total
    /\ hasMore

\* C9: a failed loadMore leaves tours, currentPage and hasMore as they were
\* and clears isLoading.
C9_FailureKeepsState ==
    [][last'.op = "reject"
       => UNCHANGED <<tours, currentPage, hasMore>> /\ ~isLoading']_vars

\* C9 witness: the only outstanding request failed and a further page is
\* still available.
C9_Witness ==
    /\ last.op = "reject" /\ inflight = <<>>
    /\ hasMore /\ ~isLoading /\ reqs < MaxReq

\* C10: with more than one code selected the filter returns exactly the
\* items whose category code is selected, in their original relative order
\* (the k-th kept item of the input is the k-th item of the result); with
\* zero or one code selected it returns the list unchanged.
C10_FilterKeepsSelectedInOrder ==
    ret.fn = "ClientFilter"
    => LET U == call.items
           S == {call.selected[k] : k \in DOMAIN call.selected}
           F == ret.value
           Kept(i) == U[i].contenttypeid \in S
           Rank(i) == Cardinality({j \in 1..i : Kept(j)})
       IN  IF Len(call.selected) > 1
           THEN /\ Len(F) = Cardinality({i \in DOMAIN U : Kept(i)})
                /\ \A i \in DOMAIN U : Kept(i) => F[Rank(i)] = U[i]
           ELSE F = U

\* C10 witness: items of codes 12, 14, 39 filtered by {12, 39} give the
\* first and the third item.
C10_Witness ==
    /\ ret.fn = "ClientFilter"
    /\ call.selected = <<"12", "39">>
    /\ call.items = ItemsOf(<<"12", "14", "39">>)
    /\ ret.value = <<call.items[1], call.items[3]>>

\* No infocenter-type field of the intro record holds a non-empty string (or
\* there is no intro record).
NoPhoneCandidate(intro) ==
    \A k \in 1..6 : ~Truthy(IntroField(intro, InfocenterFields[k]))

C13_IntroAfterCommonAndOptional ==
    /\ detailPage.fetches[1] =
          [api |-> "detailCommon2", contentId |-> detailPage.contentId]
    /\ Len(detailPage.fetches) <= 2
    /\ Len(detailPage.fetches) = 2
       => /\ detailPage.pc = "intro" \/ detailPage.view # "not-found"
          /\ "common" \in DOMAIN detailPage =>
                detailPage.fetches[2] =
                   [api |-> "detailIntro2",
                    contentId |-> detailPage.common.contentid,
                    contentTypeId |-> detailPage.common.contenttypeid]
    /\ (detailPage.pc = "done" /\ Len(detailPage.fetches) = 1)
       => detailPage.view \in {"error", "not-found"}
    /\ (detailPage.pc = "done" /\ Len(detailPage.fetches) = 2)
       => /\ detailPage.view = "detail"
          /\ detailPage.introFetch \in {"failed", "nothing"}
             => detailPage.detail = detailPage.common

\* C13 witness: the intro fetch failed and the detail view shows a common
\* record that has a phone.
C13_Witness ==
    /\ detailPage.pc = "done" /\ detailPage.view = "detail"
    /\ detailPage.introFetch = "failed"
    /\ HasValue(detailPage.detail.tel)
    /\ Len(detailPage.fetches) = 2

\* The result is null or starts with http:// or https://.
NullOrAbsolute(v) ==
    v = Undefined \/ StartsWith(v.str, HttpPrefix) \/ StartsWith(v.str, HttpsPrefix)

\* What the claim says of the string c: a sentinel gives null, an absolute
\* URL is returned as it is when well-formed, anything else with https://
\* prepended when that is well-formed, and every ill-formed case gives null.
NormalizedAs(c, v) ==
    IF ToLower(c) \in invalidValues THEN v = Undefined
    ELSE IF StartsWith(c, HttpPrefix) \/ StartsWith(c, HttpsPrefix)
    THEN v = IF UrlWellFormed(c) THEN Str(c) ELSE Undefined
    ELSE v = IF UrlWellFormed(HttpsPrefix \o c) THEN Str(HttpsPrefix \o c)
             ELSE Undefined

\* The string the rules apply to: the input trimmed and, when it holds both
\* "<" and ">" and a URL can be extracted from the markup, that URL.
HomepageCandidate(s) ==
    LET t == Trim(s)
        x == extractUrlFromHtml(t)
    IN  IF HasChar(t, "<") /\ HasChar(t, ">") /\ Truthy(x) THEN x.str ELSE t

\* C12 (as stated): normalizeHomepageUrl never throws, returns null or a
\* string starting with http:// or https://, null for a blank or sentinel
\* input, and otherwise treats the input itself by the rules above.
C12_NormalizesInputItself ==
    ret.fn = "normalizeHomepageUrl"
    => /\ ~ret.threw
       /\ NullOrAbsolute(ret.value)
       /\ IF ~Truthy(call.url) \/ Trim(call.url.str) = <<>>
          THEN ret.value = Undefined
          ELSE NormalizedAs(call.url.str, ret.value)

\* C12 as amended: the same, with the rules applied to the input after
\* trimming and markup extraction.
C12_NormalizesCandidate ==
    ret.fn = "normalizeHomepageUrl"
    => /\ ~ret.threw
       /\ NullOrAbsolute(ret.value)
       /\ IF ~Truthy(call.url) \/ Trim(call.url.str) = <<>>
          THEN ret.value = Undefined
          ELSE NormalizedAs(HomepageCandidate(call.url.str), ret.value)

\* C12 witness: a host name with blanks around it got https:// prepended
\* and the blanks dropped.
C12_Witness ==
    /\ ret.fn = "normalizeHomepageUrl"
    /\ call.url = Str(<<" ", "a", ".", "a", " ">>)
    /\ ret.value = Str(HttpsPrefix \o <<"a", ".", "a">>)

\* C14: convertKatecToWgs84 never throws; it returns 0 when the text does not
\* parse as a number, the parsed value divided by 10,000,000 when its
\* absolute value is at least 1000, and the parsed value itself otherwise.
C14_ConvertByMagnitude ==
    ret.fn = "convertKatecToWgs84"
    => LET v == parseFloat(call.katecCoord)
       IN  /\ ~ret.threw
           /\ IsNaN(v) => ret.value = Zero
           /\ (~IsNaN(v) /\ v.mant \div Pow10(v.scale) >= 1000)
              => ret.value = Num(v.sign, v.mant, v.scale + 7)
           /\ (~IsNaN(v) /\ v.mant \div Pow10(v.scale) < 1000)
              => ret.value = v

\* C14 witness: "-1000" was converted to -0.0001.
C14_Witness ==
    /\ ret.fn = "convertKatecToWgs84"
    /\ call.katecCoord = <<"-", "1", "0", "0", "0">>
    /\ ret.value = [sign |-> -1, mant |-> 1, scale |-> 4]

\* A coordinate the claim counts as valid: present, numeric and not "0".
ValidCoordinate(v) ==
    Truthy(v) /\ ~IsNaN(parseFloat(v.str)) /\ v # Str(<<"0">>)

ValidItem(tour) == ValidCoordinate(tour.mapx) /\ ValidCoordinate(tour.mapy)

\* x * n for a natural n.
Times(x, n) == Num(x.sign, x.mant * n, x.scale)

\* C15: calculateCenter returns null for an empty list and for a list whose
\* items all have an invalid coordinate (missing, non-numeric or "0");
\* otherwise its result is the mean over the valid items alone, which for
\* exactly one valid item is that item's converted longitude and latitude.
C15_CenterOverValidItemsOnly ==
    ret.fn = "calculateCenter"
    => LET good == SelectSeq(call.tours, ValidItem)
           n == Len(good)
       IN  IF n = 0 THEN ret.value = Undefined
           ELSE /\ ret.value # Undefined
                /\ Times(ret.value.sumLng, n)
                      = Times(SumOf(good, "mapx"), ret.value.count)
                /\ Times(ret.value.sumLat, n)
                      = Times(SumOf(good, "mapy"), ret.value.count)

\* C17: fetchTourApi throws for every non-OK HTTP status and for every
\* resultCode other than "0000", and returns the parsed body only when the
\* resultCode is "0000"; the list functions then give n items for an item
\* array of n, one for a single object and none for an absent item.
C17_FetchFailsUnlessOk ==
    ret.fn = "getAreaBasedList"
    => LET r == call.resp IN
       /\ (~r.ok \/ r.resultCode # <<"0", "0", "0", "0">>) => ret.fetched.threw
       /\ ~ret.fetched.threw
          => /\ r.ok /\ r.resultCode = <<"0", "0", "0", "0">>
             /\ ret.fetched.value = r
       /\ ret.fetched.threw => ret.list.threw
       /\ (~ret.fetched.threw /\ r.item.kind = "array")
          => ~ret.list.threw /\ ret.list.value = r.item.elems
       /\ (~ret.fetched.threw /\ r.item.kind = "object")
          => ~ret.list.threw /\ ret.list.value = <<r.item.value>>
       /\ (~ret.fetched.threw /\ r.item.kind = "absent")
          => ~ret.list.threw /\ ret.list.value = <<>>

\* C17 witness: an HTTP 200 whose JSON carries result code "03" and an item
\* was turned into a failure.
C17_Witness ==
    /\ ret.fn = "getAreaBasedList"
    /\ call.resp.ok /\ call.resp.json
    /\ call.resp.resultCode = <<"0", "3">>
    /\ call.resp.item.kind = "object"
    /\ ret.fetched.threw /\ ret.list.threw

\* C16: the table never holds two rows for one (user, content) pair; an
\* addBookmark for a pair that already has a row returns null instead of
\* throwing and leaves the table as it was; and the button whose add was
\* answered (created or already there) then holds the item as bookmarked.
C16_BookmarksUniquePerPair ==
    /\ \A r1, r2 \in bookmarks :
          (r1.user_id = r2.user_id /\ r1.content_id = r2.content_id)
          => r1 = r2
    /\ \A b \in DOMAIN buttons :
          LET a == buttons[b].lastAdd IN
          (a.seen /\ ~a.failed /\ a.existed)
          => /\ ~a.result.threw
             /\ a.result.value = Undefined
             /\ a.unchanged
             /\ a.markedAfter

\* C16 witness: both buttons belong to one (user, content) pair, the row
\* exists once, and the button whose add met the existing row got null and
\* shows the item as bookmarked.
C16_Witness ==
    /\ buttons # <<>>
    /\ \E b \in DOMAIN buttons :
          /\ buttons[b].lastAdd.seen
          /\ buttons[b].lastAdd.existed /\ ~buttons[b].lastAdd.failed
          /\ buttons[b].toast = "already"
          /\ buttons[b].isBookmarkedState
          /\ Cardinality(bookmarks) = 1

\* C18: after a resolved loadMore, hasMore is (the page held exactly NumOfRows
\* items) and (the page is non-empty after the client-side filter); a full
\* page that the filter empties leaves hasMore false, and the render of that
\* state mounts no sentinel, so nothing is observed any more.
C18_HasMoreAfterLoadMore ==
    /\ last.op = "resolve"
       => /\ hasMore = (last.fetched = NumOfRows /\ hasMoreSrc.len > 0)
          /\ (last.fetched = NumOfRows /\ hasMoreSrc.len = 0 => ~hasMore)
    /\ (last.op = "render" /\ ~last.reset /\ ~hasMore) => ~attached

\* C18 witness: a full page was fetched under a multi-category descriptor,
\* the filter removed every item of it, and hasMore is false.
C18_Witness ==
    /\ last.op = "resolve" /\ last.fetched = NumOfRows
    /\ Len(last.desc.contentTypeIds) > 1
    /\ hasMoreSrc.len = 0
    /\ ~hasMore

\* a precedes-or-equals b everywhere in items under the comparator of sortBy.
Ordered(items, sortBy) ==
    \A i, j \in DOMAIN items :
        i < j => Compare(sortBy, items[i], items[j]) <= 0

\* The same items, each as often, in any order.
SameItems(s, t) ==
    /\ Len(s) = Len(t)
    /\ \A x \in {s[i] : i \in DOMAIN s} \cup {t[i] : i \in DOMAIN t} :
           Cardinality({i \in DOMAIN s : s[i] = x})
               = Cardinality({i \in DOMAIN t : t[i] = x})

\* C19: a resolved loadMore keeps the accumulated items as an unchanged
\* prefix, appends the filtered items of the fetched page ordered among
\* themselves by the comparator of the request, and moves currentPage up by
\* exactly one, to the fetched page number.
C19_AppendOnlyAdvancingByOne ==
    [][last'.op = "resolve"
       => LET n == Len(tours)
              added == SubSeq(tours', n + 1, Len(tours'))
              d == last'.desc
              page == UpstreamPage(DatasetOf(SearchAreaCode(d)),
                                   last'.pageNo, last'.fetched)
          IN  /\ Len(tours') >= n
              /\ SubSeq(tours', 1, n) = tours
              /\ SameItems(added, ClientFilter(page, d.contentTypeIds))
              /\ Ordered(added, d.sortBy)
              /\ currentPage' = currentPage + 1
              /\ currentPage' = last'.pageNo]_vars

\* C20: a loadMore response for another descriptor than the one the
\* accumulator was reset to leaves the reset state alone: tours is the new
\* first page, currentPage is 1 and hasMore is (first page length <
\* totalCount).
C20_LateResponseIgnored ==
    [][(/\ last'.op = "resolve"
        /\ last'.desc # props.desc
        /\ ~propsDirty
        /\ lastInitKey = CurrentKey(props)
        /\ hasMoreSrc.by = "init"
        /\ tours = props.initialTours
        /\ currentPage = 1)
       => /\ tours' = props.initialTours
          /\ currentPage' = 1
          /\ hasMore' = InitialHasMore(props.initialTours,
                                       props.totalCount)]_vars

\* C21: between two resets the successful loadMore requests carry the page
\* numbers 2, 3, 4, ... with none skipped and none repeated: every request
\* issued, and every response appended, is for the page after the last one
\* appended since the reset (so a request following a failure asks for the
\* failed page again).
C21_PagesInSequence ==
    [][/\ last'.op = "loadMore" => last'.pageNo = currentPage + 1
       /\ last'.op = "resolve" => last'.pageNo = currentPage + 1]_vars

\* The query parameter v is given: neither missing nor empty.
Given(v) == IsStr(v) /\ v.str # <<>>

\* C22: the first-page request of Home and the loadMore request are derived
\* from the descriptor alike: keyword search iff the keyword is non-blank,
\* the area parameter is the sub-area code when there is one and the area
\* code otherwise, and the category parameter is the first selected category
\* code, or none.
C22_RequestsDerivedAlike ==
    ret.fn = "Home"
    => LET p == call.params
           d == ret.desc
           nonBlank == IsStr(p.keyword) /\ Trim(p.keyword.str) # <<>>
       IN  \A q \in {ret.first, ret.more} :
              /\ (q.mode = "keyword") = nonBlank
              /\ (q.mode = "area") = ~nonBlank
              /\ nonBlank => q.keyword = Text(Trim(p.keyword.str))
              /\ q.searchAreaCode = IF d.subAreaCode # "" THEN d.subAreaCode
                                    ELSE d.areaCode
              /\ q.contentTypeId = IF d.contentTypeIds = <<>> THEN ""
                                   ELSE Head(d.contentTypeIds)
              /\ q.numOfRows = NumOfRows

\* C22 witness: a query with a padded keyword, an area, a sub-area and two
\* categories: both requests are keyword searches in the sub-area for the
\* first category.
C22_Witness ==
    /\ ret.fn = "Home"
    /\ call.params.keyword = Str(<<" ", "k", " ">>)
    /\ call.params.areaCode = Str(<<"2">>)
    /\ ret.first.mode = "keyword" /\ ret.more.mode = "keyword"
    /\ ret.first.searchAreaCode = "5" /\ ret.more.searchAreaCode = "5"
    /\ ret.first.contentTypeId = "39" /\ ret.more.contentTypeId = "39"
    /\ ret.more.pageNo = 2

InfocenterFieldOf(type) ==
    IF type = "12" THEN "infocenter"
    ELSE IF type = "14" THEN "infocenterculture"
    ELSE IF type = "28" THEN "infocenterleports"
    ELSE IF type = "32" THEN "infocenterlodging"
    ELSE IF type = "38" THEN "infocentershopping"
    ELSE IF type = "39" THEN "infocenterfood"
    ELSE ""

\* The phone made of the candidate text s: the extracted number, else what
\* the digits of s give.
PhoneOfCandidate(s) ==
    IF ExtractPhone(s, 1) # <<>> THEN ExtractPhone(s, 1)
    ELSE PhoneFromDigits(s)

\* The common phone was blank and an intro record arrived.
PhoneFromIntro ==
    /\ detailPage.pc = "done" /\ detailPage.view = "detail"
    /\ ~HasValue(detailPage.common.tel)
    /\ detailPage.intro # Undefined

FirstPhonePattern(s) ==
    LET hits == {k \in DOMAIN phonePatterns :
                    MatchStart(s, phonePatterns[k]) # 0}
    IN  IF hits = {} THEN 0 ELSE CHOOSE k \in hits : \A j \in hits : k <= j

\* prefix(2-3 digits)-middle(3-4 digits)-last(4 digits)
ThreeGroups ==
    <<Elem(Digits, 2, 3), Elem({"-"}, 1, 1), Elem(Digits, 3, 4),
      Elem({"-"}, 1, 1), Elem(Digits, 4, 4)>>

\* 4 digits-4 digits
TwoGroups == <<Elem(Digits, 4, 4), Elem({"-"}, 1, 1), Elem(Digits, 4, 4)>>

\* The whole of t matches pat.
WholeMatch(t, pat) ==
    /\ MatchFrom(t, 1, pat, 1) # NoMatch
    /\ SumSeq(MatchFrom(t, 1, pat, 1)) = Len(t)

DigitsOf(s) == SelectSeq(s, LAMBDA c : c \in Digits)

\* C25: when the intro candidate matches a phone pattern (the first of the
\* three that matches), the phone is the digits of the matched text with
\* hyphens between the groups: prefix-middle-last for the general and the
\* parenthesized pattern, 4 digits-4 digits for the short-code pattern.
C25_MatchedPhoneHyphenated ==
    PhoneFromIntro
    => LET v == OrChain([k \in 1..6 |->
                            detailPage.intro[InfocenterFields[k]]])
           p == FirstPhonePattern(v.str)
           pat == phonePatterns[p]
           matched == Group(v.str, pat, MatchStart(v.str, pat), 1, Len(pat))
           t == detailPage.detail.tel.str
       IN  (Truthy(v) /\ p > 0)
           => /\ DigitsOf(t) = DigitsOf(matched)
              /\ WholeMatch(t, IF p = 2 THEN TwoGroups ELSE ThreeGroups)

\* C26: a non-blank common homepage is never replaced; with a blank one, the
\* homepage is the first of the six homepage fields of the intro record, in
\* their fixed order, that is non-blank after trimming, even when an earlier
\* field holds only whitespace.
C26_FirstNonBlankHomepage ==
    (detailPage.pc = "done" /\ detailPage.view = "detail")
    => LET c == detailPage.common.homepage
           intro == detailPage.intro
           nonBlank == IF intro = Undefined THEN {}
                       ELSE {k \in 1..6 : HasValue(intro[HomepageFields[k]])}
           h == detailPage.detail.homepage
       IN  IF HasValue(c) \/ nonBlank = {} THEN h = c
           ELSE \E k \in nonBlank :
                   /\ \A j \in nonBlank : k <= j
                   /\ IsStr(h)
                   /\ Trim(h.str) = Trim(intro[HomepageFields[k]].str)

\* The step is the end of the running handler of button b: the answer of
\* the store reaches handleToggleBookmark.
HandlerEnds(b) ==
    /\ buttons[b].pending # <<>>
    /\ buttons[b].pending[1].stage = "answered"
    /\ buttons'[b].pending = Tail(buttons[b].pending)

\* C27: when the store operation of a toggle fails, the button keeps the
\* bookmarked state it had before the click, shows the error toast and
\* clears isProcessing; and while isProcessing is set no further toggle is
\* started, so at most one handler runs per button and the flag is set
\* exactly while it runs.
C27_FailedToggleKeepsState ==
    /\ [](\A b \in DOMAIN buttons :
             /\ Len(buttons[b].pending) <= 1
             /\ buttons[b].isProcessing = (buttons[b].pending # <<>>))
    /\ [][\A b \in DOMAIN buttons :
             /\ (HandlerEnds(b) /\ buttons[b].pending[1].answer.error = "network")
                => /\ buttons'[b].isBookmarkedState
                         = buttons[b].pending[1].before
                   /\ buttons'[b].toast = "error"
                   /\ ~buttons'[b].isProcessing
             /\ buttons[b].isProcessing
                => Len(buttons'[b].pending) <= Len(buttons[b].pending)]_vars

\* C27 witness: a remove failed on a bookmarked button, which still shows
\* the item as bookmarked with the error toast and the flag cleared.
C27_Witness ==
    /\ buttons # <<>>
    /\ \E b \in DOMAIN buttons :
          /\ buttons[b].toast = "error"
          /\ buttons[b].isBookmarkedState
          /\ ~buttons[b].isProcessing
          /\ buttons[b].pending = <<>>
          /\ ~buttons[b].rendered.isProcessing

\* C28: the tours HomeLayout gives to the map are the accumulator's items:
\* once everything is rendered, layoutTours is the first page followed by
\* all pages loaded so far, and the new first page alone after a reset.
C28_MapShowsAccumulatedTours ==
    (/\ ~propsDirty
     /\ rendered = Snapshot(props, Len(tours), isLoading, hasMore, currentPage))
    => layoutTours = tours

\* The lists and the selection of the bookmark list.
ListContents(l) ==
    [bookmarks |-> l.bookmarks, tourItems |-> l.tourItems,
     selectedIds |-> l.selectedIds]

\* C29: in the bookmark list the selected ids are always ids of displayed
\* items; a failed single or batch delete leaves the bookmarks, the displayed
\* items and the selection as they were; a successful batch delete removes
\* exactly the ids it was issued for from both lists and empties the
\* selection.
C29_SelectionWithinDisplayed ==
    /\ [](bookmarkList.selectedIds \subseteq DisplayedIds(bookmarkList))
    /\ [][bookmarkList'.last.op = "settle" =>
            LET l == bookmarkList
                op == bookmarkList'.last
            IN /\ ~op.ok => ListContents(bookmarkList') = ListContents(l)
               /\ (op.ok /\ op.kind = "batch") =>
                    ListContents(bookmarkList') =
                        [bookmarks |-> SelectSeq(l.bookmarks,
                            LAMBDA bm : bm.content_id \notin op.ids),
                         tourItems |-> SelectSeq(l.tourItems,
                            LAMBDA t : t.contentid \notin op.ids),
                         selectedIds |-> {}]]_vars

\* C30: the interval of handleScriptLoad ticks at most maxRetries times (10
\* in NaverMap, 15 in DetailMap) and is then cleared, having set either the
\* loaded flag (handle found) or the error message (handle never found), not
\* both; in NaverMap, with its mount-time interval of at most 50 ticks, the
\* loaded flag and the initialization error are never both set.
C30_PollingBoundedOneOutcome ==
    mapLoader.component \in MapComponents =>
        LET m == mapLoader
            p == m.checkNaverMaps
        IN /\ p.count <= maxRetries(m.component)
           /\ p.state = "running" => p.count < maxRetries(m.component)
           /\ p.state = "running" => ~m.pollerSetLoaded /\ ~m.pollerSetError
           /\ p.state = "cleared" =>
                /\ m.pollerSetLoaded # m.pollerSetError
                /\ m.pollerSetLoaded => m.isLoaded /\ m.handle
                /\ m.pollerSetError =>
                     /\ m.error = InitializationError
                     /\ p.count = maxRetries(m.component)
           /\ m.interval.count <= MaxChecks
           /\ m.interval.state = "running" => m.interval.count < MaxChecks
           /\ m.component = "NaverMap" =>
                ~(m.isLoaded /\ m.error = InitializationError)

====
